---- MODULE Spec2Model ----
(***************************************************************************)
(* A model of the Vetra contract (src/contracts/Vetra.sol): the reserve    *)
(* ledger fed by the Chainlink Functions callback, the mint / burn gates   *)
(* and the admin setters, as one state machine over a block clock.         *)
(*                                                                         *)
(* Every transaction is one step.  A transaction that reverts changes no   *)
(* contract storage; what the caller observes of it (the revert error and  *)
(* its arguments, or the event the call emitted) is kept in `last`.        *)
(*                                                                         *)
(* Token amounts.  RESERVE_TO_TOKEN_SCALE is 10^10 (Vetra.sol:58-59).  A   *)
(* token amount is written in that base as <<q, r>>, standing for          *)
(* q * 10^10 + r with |r| far below 10^10, so that sums, differences and   *)
(* comparisons of the amounts the model reaches are exact: lastReserveUsd  *)
(* * RESERVE_TO_TOKEN_SCALE is <<lastReserveUsd, 0>>, "one unit more than  *)
(* the capacity" is <<lastReserveUsd, 1>>.                                 *)
(***************************************************************************)
EXTENDS Integers, FiniteSets, Sequences, TLC

\* ------------------------------------------------------------------ bounds
MaxTime == 3        \* the block clock runs over 1..MaxTime
MaxTTL == 2         \* TTL values an admin sets: 0..MaxTTL
MaxUsd == 1         \* usd values the oracle delivers: 0..MaxUsd
MaxNonce == 2       \* nonces the oracle delivers: 0..MaxNonce
MaxUnits == 1       \* |r| of every balance <<q, r>> the model keeps

\* --------------------------------------------------------------- addresses
ZeroAddress == "0x0"
Admin == "admin"
Minter == "minter"
Burner == "burner"
User == "user"
Router == "router"

Accounts == {Admin, Minter, Burner, User, Router}

\* The accounts that mints are sent to in the model.
Holders == {User, Minter}

\* ------------------------------------------------------------------- roles
DEFAULT_ADMIN_ROLE == "DEFAULT_ADMIN_ROLE"
MINTER_ROLE == "MINTER_ROLE"
BURNER_ROLE == "BURNER_ROLE"
RoleNames == {DEFAULT_ADMIN_ROLE, MINTER_ROLE, BURNER_ROLE}

\* ----------------------------------------------------------- token amounts
TokZero == <<0, 0>>
TokAdd(a, b) == <<a[1] + b[1], a[2] + b[2]>>
TokSub(a, b) == <<a[1] - b[1], a[2] - b[2]>>
TokLt(a, b) == a[1] < b[1] \/ (a[1] = b[1] /\ a[2] < b[2])
TokGt(a, b) == TokLt(b, a)
TokLe(a, b) == ~TokLt(b, a)

\* uint256 reserveScaled = lastReserveUsd * RESERVE_TO_TOKEN_SCALE
ScaleReserve(usd) == <<usd, 0>>

\* The largest usd word whose product with RESERVE_TO_TOKEN_SCALE still fits a
\* uint256, type(uint256).max / 10^10, at the width of the model's words.
MaxScalableUsd == 3

\* (the product taken in an unchecked block: it wraps and nothing aborts)
MulOverflows_Unchecked(usd) == FALSE
\* Solidity 0.8 checked `*`: Panic(0x11) when the product exceeds uint256.
MulOverflows(usd) == usd > MaxScalableUsd

\* The amounts the model keeps: |r| <= MaxUnits.
InUnits(a) == a[2] >= -MaxUnits /\ a[2] <= MaxUnits

\* Amounts passed to mint, burn and burnFrom, and to setMintPerTxLimit.
OneUnit == <<0, 1>>
Amounts == {TokZero, OneUnit, <<1, 0>>}

VARIABLES
    now,                    \* block.timestamp
    lastReserveUsd,
    lastReserveTimestamp,
    lastReserveNonce,
    reserveTTL,
    functionsRouter,
    chainlink,              \* <<donId, subscriptionId, gasLimit>>
    requests,               \* request id -> RequestMetadata
    totalSupply,            \* ERC20 totalSupply()
    balances,               \* ERC20 balanceOf, over Accounts
    roles,                  \* AccessControl: role -> accounts holding it
    implementation,         \* ERC1967: the implementation the proxy runs
    paused,                 \* Pausable: paused()
    mintPerTxLimit,
    allowlistEnabled,
    allowlist,              \* address -> bool, over Accounts
    last,                   \* the outcome of the last transaction
    script                  \* scripts/mintFull.ts: its position and what it read

ledger == <<lastReserveUsd, lastReserveNonce, lastReserveTimestamp>>
policy == <<mintPerTxLimit, allowlistEnabled, allowlist>>
supply == <<totalSupply, balances>>
access == <<roles, implementation>>
oracle == <<functionsRouter, chainlink, requests>>
storage == <<ledger, reserveTTL, oracle, supply, access, paused, policy>>
vars == <<now, storage, last, script>>

\* ---------------------------------------------------------------- outcomes
Revert(fn, name, args) == [fn |-> fn, kind |-> "revert", name |-> name, args |-> args]
Event(fn, name, args) == [fn |-> fn, kind |-> "event", name |-> name, args |-> args]
Return(fn) == [fn |-> fn, kind |-> "return", name |-> "", args |-> <<>>]
NoCall == [fn |-> "", kind |-> "none", name |-> "", args |-> <<>>]

hasRole(role, account) == account \in roles[role]

\* -------------------------------------------------------------------- mint
\* if (to == address(0)) revert InvalidAddress();
\* if (amount == 0) revert InvalidAmount();
MintInputError_AmountFirst(to, amount) ==
    IF amount = TokZero THEN "InvalidAmount"
    ELSE IF to = ZeroAddress THEN "InvalidAddress"
    ELSE ""
MintInputError(to, amount) ==
    IF to = ZeroAddress THEN "InvalidAddress"
    ELSE IF amount = TokZero THEN "InvalidAmount"
    ELSE ""

\* if (currentReserveAge > reserveTTL) revert ReserveStale(...)
AgeExceedsTTL_Exclusive(currentReserveAge) == currentReserveAge >= reserveTTL
AgeExceedsTTL(currentReserveAge) == currentReserveAge > reserveTTL

\* if (newTotalSupply > reserveScaled) revert ReserveInsufficient(...)
ExceedsReserve_Exclusive(newTotalSupply, reserveScaled) ==
    TokLe(reserveScaled, newTotalSupply)
\* (each request judged alone: its own amount against the reserve)
ExceedsReserve_IgnoresSupply(newTotalSupply, reserveScaled) ==
    TokGt(TokSub(newTotalSupply, totalSupply), reserveScaled)
\* (the reserve check applied only once an attestation is stored)
ExceedsReserve_SkippedWhenUnset(newTotalSupply, reserveScaled) ==
    lastReserveTimestamp # 0 /\ TokGt(newTotalSupply, reserveScaled)
ExceedsReserve(newTotalSupply, reserveScaled) == TokGt(newTotalSupply, reserveScaled)

\* if (mintPerTxLimit > 0 && amount > mintPerTxLimit) revert MintLimitExceeded(...)
ExceedsMintLimit_Exclusive(amount) ==
    TokGt(mintPerTxLimit, TokZero) /\ TokLe(mintPerTxLimit, amount)
\* (the comparison without the mintPerTxLimit > 0 test)
ExceedsMintLimit_ZeroIsLimit(amount) == TokGt(amount, mintPerTxLimit)
ExceedsMintLimit(amount) ==
    TokGt(mintPerTxLimit, TokZero) /\ TokGt(amount, mintPerTxLimit)

\* if (allowlistEnabled && !allowlist[to]) revert RecipientNotAllowed(to)
RecipientBlocked(to) == allowlistEnabled /\ ~allowlist[to]

\* (the event reading totalSupply() before _mint has run)
MintOutcome_SupplyBefore(caller, to, amount) ==
    IF ~hasRole(MINTER_ROLE, caller)
    THEN Revert("mint", "AccessControlUnauthorizedAccount", <<caller, MINTER_ROLE>>)
    ELSE IF paused
    THEN Revert("mint", "EnforcedPause", <<>>)
    ELSE IF MintInputError(to, amount) # ""
    THEN Revert("mint", MintInputError(to, amount), <<>>)
    ELSE LET currentReserveAge == now - lastReserveTimestamp
             reserveScaled == ScaleReserve(lastReserveUsd)
             newTotalSupply == TokAdd(totalSupply, amount)
         IN  IF AgeExceedsTTL(currentReserveAge)
             THEN Revert("mint", "ReserveStale", <<currentReserveAge, reserveTTL>>)
             ELSE IF MulOverflows(lastReserveUsd)
             THEN Revert("mint", "Panic", <<17>>)
             ELSE IF ExceedsReserve(newTotalSupply, reserveScaled)
             THEN Revert("mint", "ReserveInsufficient", <<newTotalSupply, reserveScaled>>)
             ELSE IF ExceedsMintLimit(amount)
             THEN Revert("mint", "MintLimitExceeded", <<amount, mintPerTxLimit>>)
             ELSE IF RecipientBlocked(to)
             THEN Revert("mint", "RecipientNotAllowed", <<to>>)
             ELSE Event("mint", "TokensMinted",
                        <<to, amount, caller, totalSupply, lastReserveUsd, now>>)
\* The checks of mint, in the order the code runs them: the modifiers
\* onlyRole(MINTER_ROLE) and whenNotPaused, then the body.  The result is the
\* revert the caller sees, or the TokensMinted event of an accepted mint.
MintOutcome(caller, to, amount) ==
    IF ~hasRole(MINTER_ROLE, caller)
    THEN Revert("mint", "AccessControlUnauthorizedAccount", <<caller, MINTER_ROLE>>)
    ELSE IF paused
    THEN Revert("mint", "EnforcedPause", <<>>)
    ELSE IF MintInputError(to, amount) # ""
    THEN Revert("mint", MintInputError(to, amount), <<>>)
    ELSE LET currentReserveAge == now - lastReserveTimestamp
             reserveScaled == ScaleReserve(lastReserveUsd)
             newTotalSupply == TokAdd(totalSupply, amount)
         IN  IF AgeExceedsTTL(currentReserveAge)
             THEN Revert("mint", "ReserveStale", <<currentReserveAge, reserveTTL>>)
             ELSE IF MulOverflows(lastReserveUsd)
             THEN Revert("mint", "Panic", <<17>>)
             ELSE IF ExceedsReserve(newTotalSupply, reserveScaled)
             THEN Revert("mint", "ReserveInsufficient", <<newTotalSupply, reserveScaled>>)
             ELSE IF ExceedsMintLimit(amount)
             THEN Revert("mint", "MintLimitExceeded", <<amount, mintPerTxLimit>>)
             ELSE IF RecipientBlocked(to)
             THEN Revert("mint", "RecipientNotAllowed", <<to>>)
             ELSE Event("mint", "TokensMinted",
                        <<to, amount, caller, newTotalSupply, lastReserveUsd, now>>)

\* ERC20 _mint(to, amount)
MintApply(to, amount) ==
    /\ totalSupply' = TokAdd(totalSupply, amount)
    /\ balances' = [balances EXCEPT ![to] = TokAdd(@, amount)]
    /\ InUnits(totalSupply')
    /\ InUnits(balances'[to])

\* (mint with _mint run ahead of the allowlist check and not rolled back)
mint_NoRollback(caller, to, amount) ==
    LET out == MintOutcome(caller, to, amount)
    IN  /\ last' = out
        /\ IF out.kind = "event" \/ out.name = "RecipientNotAllowed"
           THEN MintApply(to, amount)
           ELSE UNCHANGED supply
        /\ UNCHANGED <<now, script, ledger, reserveTTL, oracle, access, paused, policy>>

mint(caller, to, amount) ==
    LET out == MintOutcome(caller, to, amount)
    IN  /\ last' = out
        /\ IF out.kind = "event"
           THEN MintApply(to, amount)
           ELSE UNCHANGED supply
        /\ UNCHANGED <<now, script, ledger, reserveTTL, oracle, access, paused, policy>>

\* -------------------------------------------------------------------- burn
\* ERC20 _burn(account, amount): reverts when the balance is too small.
\* (a burn that asks for a fresh reserve, as mint does)
BurnOutcome_ReserveChecked(fn, caller, account, amount) ==
    IF AgeExceedsTTL(now - lastReserveTimestamp)
    THEN Revert(fn, "ReserveStale", <<now - lastReserveTimestamp, reserveTTL>>)
    ELSE IF TokLt(balances[account], amount)
    THEN Revert(fn, "ERC20InsufficientBalance", <<account, balances[account], amount>>)
    ELSE Event(fn, "TokensBurned",
               <<account, amount, caller, TokSub(totalSupply, amount), now>>)
BurnOutcome(fn, caller, account, amount) ==
    IF TokLt(balances[account], amount)
    THEN Revert(fn, "ERC20InsufficientBalance", <<account, balances[account], amount>>)
    ELSE Event(fn, "TokensBurned",
               <<account, amount, caller, TokSub(totalSupply, amount), now>>)

BurnApply(account, amount) ==
    /\ totalSupply' = TokSub(totalSupply, amount)
    /\ balances' = [balances EXCEPT ![account] = TokSub(@, amount)]
    /\ InUnits(totalSupply')
    /\ InUnits(balances'[account])

BurnFromOutcome(caller, account, amount) ==
    IF ~hasRole(BURNER_ROLE, caller)
    THEN Revert("burnFrom", "AccessControlUnauthorizedAccount", <<caller, BURNER_ROLE>>)
    ELSE IF paused
    THEN Revert("burnFrom", "EnforcedPause", <<>>)
    ELSE IF account = ZeroAddress
    THEN Revert("burnFrom", "InvalidAddress", <<>>)
    ELSE IF amount = TokZero
    THEN Revert("burnFrom", "InvalidAmount", <<>>)
    ELSE BurnOutcome("burnFrom", caller, account, amount)

burnFrom(caller, account, amount) ==
    LET out == BurnFromOutcome(caller, account, amount)
    IN  /\ last' = out
        /\ IF out.kind = "event"
           THEN BurnApply(account, amount)
           ELSE UNCHANGED supply
        /\ UNCHANGED <<now, script, ledger, reserveTTL, oracle, access, paused, policy>>

\* (burn without the whenNotPaused modifier)
SelfBurnOutcome_NoPause(caller, amount) ==
    IF amount = TokZero
    THEN Revert("burn", "InvalidAmount", <<>>)
    ELSE BurnOutcome("burn", caller, caller, amount)
SelfBurnOutcome(caller, amount) ==
    IF paused
    THEN Revert("burn", "EnforcedPause", <<>>)
    ELSE IF amount = TokZero
    THEN Revert("burn", "InvalidAmount", <<>>)
    ELSE BurnOutcome("burn", caller, caller, amount)

burn(caller, amount) ==
    LET out == SelfBurnOutcome(caller, amount)
    IN  /\ last' = out
        /\ IF out.kind = "event"
           THEN BurnApply(caller, amount)
           ELSE UNCHANGED supply
        /\ UNCHANGED <<now, script, ledger, reserveTTL, oracle, access, paused, policy>>

\* ---------------------------------------------------------- view functions
\* type(uint256).max, at the width of the model's integers: above every age
\* the clock can produce.
MaxUint256 == 2147483647

reserveUsd == lastReserveUsd

\* (the subtraction without the never-set test)
reserveAge_NoSentinel == now - lastReserveTimestamp
reserveAge ==
    IF lastReserveTimestamp = 0 THEN MaxUint256
    ELSE now - lastReserveTimestamp

reserveNonce == lastReserveNonce

isReserveFresh ==
    IF lastReserveTimestamp = 0 THEN FALSE
    ELSE (now - lastReserveTimestamp) <= reserveTTL

\* (the subtraction without the reserveScaled <= supply test)
availableMintCapacity_Unchecked ==
    TokSub(ScaleReserve(lastReserveUsd), totalSupply)
availableMintCapacity ==
    LET reserveScaled == ScaleReserve(lastReserveUsd)
    IN  IF TokLe(reserveScaled, totalSupply) THEN TokZero
        ELSE TokSub(reserveScaled, totalSupply)

\* What a caller of availableMintCapacity() gets: the value, or the panic of
\* the checked multiplication.
AvailableMintCapacityOutcome ==
    IF MulOverflows(lastReserveUsd)
    THEN Revert("availableMintCapacity", "Panic", <<17>>)
    ELSE [fn |-> "availableMintCapacity", kind |-> "return", name |-> "",
          args |-> <<availableMintCapacity>>]

\* ------------------------------------------------------ oracle: the request
\* bytes32 request ids the router hands out.
RequestIds == {"req1"}

\* requests[id] of an id never written: the zero value of RequestMetadata.
NoRequest == [requester |-> ZeroAddress, timestamp |-> 0, fulfilled |-> FALSE]

\* router.sendRequest is an external call: it reverts, or returns a request id
\* the router has not handed out before (sent = FALSE, or requestId = the id).
requestReserveUpdate(caller, sent, requestId) ==
    /\ IF ~hasRole(DEFAULT_ADMIN_ROLE, caller)
       THEN /\ last' = Revert("requestReserveUpdate", "AccessControlUnauthorizedAccount",
                              <<caller, DEFAULT_ADMIN_ROLE>>)
            /\ UNCHANGED requests
       ELSE IF ~sent
       THEN /\ last' = Revert("requestReserveUpdate", "sendRequest", <<>>)
            /\ UNCHANGED requests
       ELSE /\ requests[requestId].requester = ZeroAddress
            /\ requests' = [requests EXCEPT ![requestId] =
                   [requester |-> caller, timestamp |-> now, fulfilled |-> FALSE]]
            /\ last' = Event("requestReserveUpdate", "ReserveUpdateRequested",
                             <<requestId, caller, now>>)
    /\ UNCHANGED <<now, script, ledger, reserveTTL, functionsRouter, chainlink, supply,
                   access, paused, policy>>

\* ----------------------------------------------------- oracle: the callback
\* A response either ABI-decodes to (usdAmount, nonce) or does not.
Undecodable == [decodes |-> FALSE, usdAmount |-> 0, nonce |-> 0]
Responses ==
    {Undecodable} \cup
    {[decodes |-> TRUE, usdAmount |-> u, nonce |-> n] : u \in 0..MaxUsd, n \in 0..MaxNonce}

\* The response bytes, as the sequence of 32-byte words they hold.
\* abi.decode(response, (uint256, uint256)) reverts on fewer than two words and
\* reads the first two words of anything longer.
Payloads ==
    {<<>>, <<1>>} \cup
    {<<u, n>> : u \in 0..MaxUsd, n \in 0..MaxNonce} \cup
    {<<MaxUsd, n, 0>> : n \in 0..MaxNonce}

abi_decode(response) ==
    IF Len(response) < 2 THEN Undecodable
    ELSE [decodes |-> TRUE, usdAmount |-> response[1], nonce |-> response[2]]

\* if (nonce <= lastReserveNonce) revert NonceNotMonotonic(...)
NonceNotAbove_Strict(nonce) == nonce < lastReserveNonce
NonceNotAbove_Unchecked(nonce) == FALSE
NonceNotAbove_FirstExempt(nonce) ==
    lastReserveTimestamp # 0 /\ nonce <= lastReserveNonce
NonceNotAbove(nonce) == nonce <= lastReserveNonce

\* (a guard on request.fulfilled ahead of everything the router's call does)
FulfillmentOutcome_RejectsFulfilled(caller, requestId, response, err) ==
    IF caller # functionsRouter
    THEN Revert("handleOracleFulfillment", "InvalidAddress", <<>>)
    ELSE IF requests[requestId].fulfilled
    THEN Revert("handleOracleFulfillment", "AlreadyFulfilled", <<requestId>>)
    ELSE IF err
    THEN Return("handleOracleFulfillment")
    ELSE IF ~response.decodes
    THEN Revert("handleOracleFulfillment", "abi.decode", <<>>)
    ELSE IF NonceNotAbove(response.nonce)
    THEN Revert("handleOracleFulfillment", "NonceNotMonotonic",
                <<lastReserveNonce, response.nonce>>)
    ELSE Event("handleOracleFulfillment", "ReserveUpdated",
               <<response.usdAmount, response.nonce, now, requestId>>)
\* (the response decoded ahead of the err.length test)
FulfillmentOutcome_DecodeFirst(caller, requestId, response, err) ==
    IF caller # functionsRouter
    THEN Revert("handleOracleFulfillment", "InvalidAddress", <<>>)
    ELSE IF ~response.decodes
    THEN Revert("handleOracleFulfillment", "abi.decode", <<>>)
    ELSE IF err
    THEN Return("handleOracleFulfillment")
    ELSE IF NonceNotAbove(response.nonce)
    THEN Revert("handleOracleFulfillment", "NonceNotMonotonic",
                <<lastReserveNonce, response.nonce>>)
    ELSE Event("handleOracleFulfillment", "ReserveUpdated",
               <<response.usdAmount, response.nonce, now, requestId>>)
\* (the caller compared with the router given to initialize)
FulfillmentOutcome_InitialRouter(caller, requestId, response, err) ==
    IF caller # Router
    THEN Revert("handleOracleFulfillment", "InvalidAddress", <<>>)
    ELSE IF err
    THEN Return("handleOracleFulfillment")
    ELSE IF ~response.decodes
    THEN Revert("handleOracleFulfillment", "abi.decode", <<>>)
    ELSE IF NonceNotAbove(response.nonce)
    THEN Revert("handleOracleFulfillment", "NonceNotMonotonic",
                <<lastReserveNonce, response.nonce>>)
    ELSE Event("handleOracleFulfillment", "ReserveUpdated",
               <<response.usdAmount, response.nonce, now, requestId>>)
\* (a delivery accepted only for a request id that was submitted)
FulfillmentOutcome_NeedsRequest(caller, requestId, response, err) ==
    IF caller # functionsRouter
    THEN Revert("handleOracleFulfillment", "InvalidAddress", <<>>)
    ELSE IF requests[requestId].requester = ZeroAddress
    THEN Revert("handleOracleFulfillment", "UnknownRequest", <<requestId>>)
    ELSE IF err
    THEN Return("handleOracleFulfillment")
    ELSE IF ~response.decodes
    THEN Revert("handleOracleFulfillment", "abi.decode", <<>>)
    ELSE IF NonceNotAbove(response.nonce)
    THEN Revert("handleOracleFulfillment", "NonceNotMonotonic",
                <<lastReserveNonce, response.nonce>>)
    ELSE Event("handleOracleFulfillment", "ReserveUpdated",
               <<response.usdAmount, response.nonce, now, requestId>>)
\* (the callback under the whenNotPaused modifier)
FulfillmentOutcome_WhenNotPaused(caller, requestId, response, err) ==
    IF paused
    THEN Revert("handleOracleFulfillment", "EnforcedPause", <<>>)
    ELSE IF caller # functionsRouter
    THEN Revert("handleOracleFulfillment", "InvalidAddress", <<>>)
    ELSE IF err
    THEN Return("handleOracleFulfillment")
    ELSE IF ~response.decodes
    THEN Revert("handleOracleFulfillment", "abi.decode", <<>>)
    ELSE IF NonceNotAbove(response.nonce)
    THEN Revert("handleOracleFulfillment", "NonceNotMonotonic",
                <<lastReserveNonce, response.nonce>>)
    ELSE Event("handleOracleFulfillment", "ReserveUpdated",
               <<response.usdAmount, response.nonce, now, requestId>>)
FulfillmentOutcome(caller, requestId, response, err) ==
    IF caller # functionsRouter
    THEN Revert("handleOracleFulfillment", "InvalidAddress", <<>>)
    ELSE IF err
    THEN Return("handleOracleFulfillment")
    ELSE IF ~response.decodes
    THEN Revert("handleOracleFulfillment", "abi.decode", <<>>)
    ELSE IF NonceNotAbove(response.nonce)
    THEN Revert("handleOracleFulfillment", "NonceNotMonotonic",
                <<lastReserveNonce, response.nonce>>)
    ELSE Event("handleOracleFulfillment", "ReserveUpdated",
               <<response.usdAmount, response.nonce, now, requestId>>)

\* (request.fulfilled = true written after the checks, next to the ledger)
handleOracleFulfillment_FulfilledOnAccept(caller, requestId, response, err) ==
    LET out == FulfillmentOutcome(caller, requestId, response, err)
    IN  /\ last' = out
        /\ IF out.kind = "event"
           THEN /\ requests' = [requests EXCEPT ![requestId].fulfilled = TRUE]
                /\ lastReserveUsd' = response.usdAmount
                /\ lastReserveTimestamp' = now
                /\ lastReserveNonce' = response.nonce
           ELSE UNCHANGED <<requests, ledger>>
        /\ UNCHANGED <<now, script, reserveTTL, functionsRouter, chainlink, supply,
                       access, paused, policy>>
\* (request.fulfilled = true surviving the revert)
handleOracleFulfillment_FulfilledKept(caller, requestId, response, err) ==
    LET out == FulfillmentOutcome(caller, requestId, response, err)
    IN  /\ last' = out
        /\ IF out.name = "InvalidAddress"
           THEN UNCHANGED requests
           ELSE requests' = [requests EXCEPT ![requestId].fulfilled = TRUE]
        /\ IF out.kind = "event"
           THEN /\ lastReserveUsd' = response.usdAmount
                /\ lastReserveTimestamp' = now
                /\ lastReserveNonce' = response.nonce
           ELSE UNCHANGED ledger
        /\ UNCHANGED <<now, script, reserveTTL, functionsRouter, chainlink, supply,
                       access, paused, policy>>
\* (the ledger's timestamp taken from the payload's second word)
handleOracleFulfillment_PayloadTimestamp(caller, requestId, response, err) ==
    LET out == FulfillmentOutcome(caller, requestId, response, err)
    IN  /\ last' = out
        /\ IF out.kind = "revert"
           THEN UNCHANGED requests
           ELSE requests' = [requests EXCEPT ![requestId].fulfilled = TRUE]
        /\ IF out.kind = "event"
           THEN /\ lastReserveUsd' = response.usdAmount
                /\ lastReserveTimestamp' = response.nonce
                /\ lastReserveNonce' = response.nonce
           ELSE UNCHANGED ledger
        /\ UNCHANGED <<now, script, reserveTTL, functionsRouter, chainlink, supply,
                       access, paused, policy>>
\* (an ignored error delivery refreshing the ledger's timestamp)
handleOracleFulfillment_TouchOnError(caller, requestId, response, err) ==
    LET out == FulfillmentOutcome(caller, requestId, response, err)
    IN  /\ last' = out
        /\ IF out.kind = "revert"
           THEN UNCHANGED requests
           ELSE requests' = [requests EXCEPT ![requestId].fulfilled = TRUE]
        /\ IF out.kind = "event"
           THEN /\ lastReserveUsd' = response.usdAmount
                /\ lastReserveTimestamp' = now
                /\ lastReserveNonce' = response.nonce
           ELSE IF out.kind = "return"
           THEN /\ lastReserveTimestamp' = now
                /\ UNCHANGED <<lastReserveUsd, lastReserveNonce>>
           ELSE UNCHANGED ledger
        /\ UNCHANGED <<now, script, reserveTTL, functionsRouter, chainlink, supply,
                       access, paused, policy>>
handleOracleFulfillment(caller, requestId, response, err) ==
    LET out == FulfillmentOutcome(caller, requestId, response, err)
    IN  /\ last' = out
        /\ IF out.kind = "revert"
           THEN UNCHANGED requests
           ELSE requests' = [requests EXCEPT ![requestId].fulfilled = TRUE]
        /\ IF out.kind = "event"
           THEN /\ lastReserveUsd' = response.usdAmount
                /\ lastReserveTimestamp' = now
                /\ lastReserveNonce' = response.nonce
           ELSE UNCHANGED ledger
        /\ UNCHANGED <<now, script, reserveTTL, functionsRouter, chainlink, supply,
                       access, paused, policy>>

\* --------------------------------------------------------- admin functions
Unauthorized(fn, caller) ==
    Revert(fn, "AccessControlUnauthorizedAccount", <<caller, DEFAULT_ADMIN_ROLE>>)

SetReserveTTLOutcome_ZeroAllowed(caller, newTTL) ==
    IF ~hasRole(DEFAULT_ADMIN_ROLE, caller)
    THEN Unauthorized("setReserveTTL", caller)
    ELSE Event("setReserveTTL", "ReserveTTLUpdated", <<reserveTTL, newTTL>>)
SetReserveTTLOutcome(caller, newTTL) ==
    IF ~hasRole(DEFAULT_ADMIN_ROLE, caller)
    THEN Unauthorized("setReserveTTL", caller)
    ELSE IF newTTL = 0
    THEN Revert("setReserveTTL", "InvalidConfiguration", <<>>)
    ELSE Event("setReserveTTL", "ReserveTTLUpdated", <<reserveTTL, newTTL>>)

setReserveTTL(caller, newTTL) ==
    LET out == SetReserveTTLOutcome(caller, newTTL)
    IN  /\ last' = out
        /\ reserveTTL' = IF out.kind = "event" THEN newTTL ELSE reserveTTL
        /\ UNCHANGED <<now, script, ledger, oracle, supply, access, paused, policy>>

setMintPerTxLimit(caller, newLimit) ==
    /\ IF ~hasRole(DEFAULT_ADMIN_ROLE, caller)
       THEN /\ last' = Unauthorized("setMintPerTxLimit", caller)
            /\ UNCHANGED mintPerTxLimit
       ELSE /\ mintPerTxLimit' = newLimit
            /\ last' = Event("setMintPerTxLimit", "MintLimitUpdated",
                             <<mintPerTxLimit, newLimit>>)
    /\ UNCHANGED <<now, script, ledger, reserveTTL, oracle, supply, access, paused,
                   allowlistEnabled, allowlist>>

setAllowlistEnabled(caller, enabled) ==
    /\ IF ~hasRole(DEFAULT_ADMIN_ROLE, caller)
       THEN /\ last' = Unauthorized("setAllowlistEnabled", caller)
            /\ UNCHANGED allowlistEnabled
       ELSE /\ allowlistEnabled' = enabled
            /\ last' = Event("setAllowlistEnabled", "AllowlistStatusUpdated", <<enabled>>)
    /\ UNCHANGED <<now, script, ledger, reserveTTL, oracle, supply, access, paused,
                   mintPerTxLimit, allowlist>>

setAllowlistAddress(caller, account, allowed) ==
    /\ IF ~hasRole(DEFAULT_ADMIN_ROLE, caller)
       THEN /\ last' = Unauthorized("setAllowlistAddress", caller)
            /\ UNCHANGED allowlist
       ELSE IF account = ZeroAddress
       THEN /\ last' = Revert("setAllowlistAddress", "InvalidAddress", <<>>)
            /\ UNCHANGED allowlist
       ELSE /\ allowlist' = [allowlist EXCEPT ![account] = allowed]
            /\ last' = Event("setAllowlistAddress", "AllowlistAddressUpdated",
                             <<account, allowed>>)
    /\ UNCHANGED <<now, script, ledger, reserveTTL, oracle, supply, access, paused,
                   mintPerTxLimit, allowlistEnabled>>

\* config = <<donId, subscriptionId, gasLimit>>
\* (a change of oracle configuration that forgets the stored attestation)
updateChainlinkConfig_ClearsAttestation(caller, router, config) ==
    /\ IF ~hasRole(DEFAULT_ADMIN_ROLE, caller)
       THEN /\ last' = Unauthorized("updateChainlinkConfig", caller)
            /\ UNCHANGED <<functionsRouter, chainlink, ledger>>
       ELSE IF router = ZeroAddress
       THEN /\ last' = Revert("updateChainlinkConfig", "InvalidAddress", <<>>)
            /\ UNCHANGED <<functionsRouter, chainlink, ledger>>
       ELSE IF config[3] = 0
       THEN /\ last' = Revert("updateChainlinkConfig", "InvalidConfiguration", <<>>)
            /\ UNCHANGED <<functionsRouter, chainlink, ledger>>
       ELSE /\ functionsRouter' = router
            /\ chainlink' = config
            /\ lastReserveUsd' = 0
            /\ lastReserveTimestamp' = 0
            /\ lastReserveNonce' = 0
            /\ last' = Event("updateChainlinkConfig", "ChainlinkConfigUpdated",
                             <<router, config[1], config[2]>>)
    /\ UNCHANGED <<now, script, reserveTTL, requests, supply, access, paused, policy>>
updateChainlinkConfig(caller, router, config) ==
    /\ IF ~hasRole(DEFAULT_ADMIN_ROLE, caller)
       THEN /\ last' = Unauthorized("updateChainlinkConfig", caller)
            /\ UNCHANGED <<functionsRouter, chainlink>>
       ELSE IF router = ZeroAddress
       THEN /\ last' = Revert("updateChainlinkConfig", "InvalidAddress", <<>>)
            /\ UNCHANGED <<functionsRouter, chainlink>>
       ELSE IF config[3] = 0
       THEN /\ last' = Revert("updateChainlinkConfig", "InvalidConfiguration", <<>>)
            /\ UNCHANGED <<functionsRouter, chainlink>>
       ELSE /\ functionsRouter' = router
            /\ chainlink' = config
            /\ last' = Event("updateChainlinkConfig", "ChainlinkConfigUpdated",
                             <<router, config[1], config[2]>>)
    /\ UNCHANGED <<now, script, ledger, reserveTTL, requests, supply, access, paused, policy>>

\* Pausable: _pause is whenNotPaused, _unpause is whenPaused.
pause(caller) ==
    /\ IF ~hasRole(DEFAULT_ADMIN_ROLE, caller)
       THEN /\ last' = Unauthorized("pause", caller)
            /\ UNCHANGED paused
       ELSE IF paused
       THEN /\ last' = Revert("pause", "EnforcedPause", <<>>)
            /\ UNCHANGED paused
       ELSE /\ paused' = TRUE
            /\ last' = Event("pause", "Paused", <<caller>>)
    /\ UNCHANGED <<now, script, ledger, reserveTTL, oracle, supply, access, policy>>

unpause(caller) ==
    /\ IF ~hasRole(DEFAULT_ADMIN_ROLE, caller)
       THEN /\ last' = Unauthorized("unpause", caller)
            /\ UNCHANGED paused
       ELSE IF ~paused
       THEN /\ last' = Revert("unpause", "ExpectedPause", <<>>)
            /\ UNCHANGED paused
       ELSE /\ paused' = FALSE
            /\ last' = Event("unpause", "Unpaused", <<caller>>)
    /\ UNCHANGED <<now, script, ledger, reserveTTL, oracle, supply, access, policy>>

\* ---------------------------------------------------------- access control
\* AccessControlUpgradeable, inherited unchanged by Vetra: the admin role of
\* every role is DEFAULT_ADMIN_ROLE.  Granting a role already held, or revoking
\* one not held, succeeds without an event.
GrantRoleOutcome(caller, role, account) ==
    IF ~hasRole(DEFAULT_ADMIN_ROLE, caller)
    THEN Unauthorized("grantRole", caller)
    ELSE IF hasRole(role, account)
    THEN Return("grantRole")
    ELSE Event("grantRole", "RoleGranted", <<role, account, caller>>)

grantRole(caller, role, account) ==
    LET out == GrantRoleOutcome(caller, role, account)
    IN  /\ last' = out
        /\ roles' = IF out.kind = "revert" THEN roles
                    ELSE [roles EXCEPT ![role] = @ \cup {account}]
        /\ UNCHANGED <<now, script, ledger, reserveTTL, oracle, supply, implementation,
                       paused, policy>>

RevokeRoleOutcome(caller, role, account) ==
    IF ~hasRole(DEFAULT_ADMIN_ROLE, caller)
    THEN Unauthorized("revokeRole", caller)
    ELSE IF ~hasRole(role, account)
    THEN Return("revokeRole")
    ELSE Event("revokeRole", "RoleRevoked", <<role, account, caller>>)

revokeRole(caller, role, account) ==
    LET out == RevokeRoleOutcome(caller, role, account)
    IN  /\ last' = out
        /\ roles' = IF out.kind = "revert" THEN roles
                    ELSE [roles EXCEPT ![role] = @ \ {account}]
        /\ UNCHANGED <<now, script, ledger, reserveTTL, oracle, supply, implementation,
                       paused, policy>>

\* renounceRole(role, callerConfirmation): only for the caller itself.
RenounceRoleOutcome_AnyAccount(caller, role, callerConfirmation) ==
    IF ~hasRole(role, callerConfirmation)
    THEN Return("renounceRole")
    ELSE Event("renounceRole", "RoleRevoked", <<role, callerConfirmation, caller>>)
RenounceRoleOutcome(caller, role, callerConfirmation) ==
    IF callerConfirmation # caller
    THEN Revert("renounceRole", "AccessControlBadConfirmation", <<>>)
    ELSE IF ~hasRole(role, callerConfirmation)
    THEN Return("renounceRole")
    ELSE Event("renounceRole", "RoleRevoked", <<role, callerConfirmation, caller>>)

renounceRole(caller, role, callerConfirmation) ==
    LET out == RenounceRoleOutcome(caller, role, callerConfirmation)
    IN  /\ last' = out
        /\ roles' = IF out.kind = "revert" THEN roles
                    ELSE [roles EXCEPT ![role] = @ \ {callerConfirmation}]
        /\ UNCHANGED <<now, script, ledger, reserveTTL, oracle, supply, implementation,
                       paused, policy>>

\* ----------------------------------------------------------------- upgrade
\* UUPSUpgradeable.upgradeToAndCall(newImplementation, "0x"): _authorizeUpgrade
\* is onlyRole(DEFAULT_ADMIN_ROLE); the proxy then runs the new implementation
\* over the same storage.
Implementations == {"Vetra", "VetraV2"}

UpgradeOutcome_Unguarded(caller, newImplementation) ==
    Event("upgradeToAndCall", "Upgraded", <<newImplementation>>)
UpgradeOutcome(caller, newImplementation) ==
    IF ~hasRole(DEFAULT_ADMIN_ROLE, caller)
    THEN Unauthorized("upgradeToAndCall", caller)
    ELSE Event("upgradeToAndCall", "Upgraded", <<newImplementation>>)

\* (the new implementation's initializer run again over the proxy's storage)
upgradeToAndCall_Reinitialized(caller, newImplementation) ==
    LET out == UpgradeOutcome(caller, newImplementation)
    IN  /\ last' = out
        /\ implementation' = IF out.kind = "event" THEN newImplementation
                             ELSE implementation
        /\ IF out.kind = "event"
           THEN /\ lastReserveUsd' = 0
                /\ lastReserveTimestamp' = 0
                /\ lastReserveNonce' = 0
           ELSE UNCHANGED ledger
        /\ UNCHANGED <<now, script, reserveTTL, oracle, supply, roles, paused, policy>>
upgradeToAndCall(caller, newImplementation) ==
    LET out == UpgradeOutcome(caller, newImplementation)
    IN  /\ last' = out
        /\ implementation' = IF out.kind = "event" THEN newImplementation
                             ELSE implementation
        /\ UNCHANGED <<now, script, ledger, reserveTTL, oracle, supply, roles, paused, policy>>

\* ------------------------------------------------------- scripts/mintFull.ts
\* The script reads the contract's state with view calls, computes the amount
\* from what it read, and then sends one mint transaction; other transactions
\* can be mined between the reads and the mint.
NotStarted == [pc |-> "start", totalSupply |-> TokZero, lastReserveUsd |-> 0]

\* (the whole scaled reserve, without the supply already issued)
maxMintable_WholeReserve == ScaleReserve(script.lastReserveUsd)
\* const maxMintable = reserveScaled - totalSupply;
maxMintable ==
    TokSub(ScaleReserve(script.lastReserveUsd), script.totalSupply)

\* The reads and the exits before the mint: no MINTER_ROLE, reserve never set
\* or stale, contract paused, nothing left to mint.
mintFull_read(signer) ==
    /\ script.pc = "start"
    /\ LET isFresh == /\ lastReserveTimestamp > 0
                      /\ (now - lastReserveTimestamp) <= reserveTTL
           canMint == /\ hasRole(MINTER_ROLE, signer)
                      /\ isFresh
                      /\ ~paused
                      /\ TokGt(ScaleReserve(lastReserveUsd), totalSupply)
       IN  script' = [pc |-> IF canMint THEN "mint" ELSE "exit",
                      totalSupply |-> totalSupply,
                      lastReserveUsd |-> lastReserveUsd]
    /\ UNCHANGED <<now, storage, last>>

\* const tx = await vetra.mint(recipient, maxMintable), recipient = signer
mintFull_mint(signer) ==
    /\ script.pc = "mint"
    /\ LET out == MintOutcome(signer, signer, maxMintable)
       IN  /\ last' = out
           /\ IF out.kind = "event"
              THEN MintApply(signer, maxMintable)
              ELSE UNCHANGED supply
           /\ script' = [script EXCEPT !.pc = IF out.kind = "event" THEN "minted"
                                              ELSE "failed"]
    /\ UNCHANGED <<now, ledger, reserveTTL, oracle, access, paused, policy>>

\* ------------------------------------------------------------------- clock
\* A later block: block.timestamp grows, storage stays, and no transaction
\* has run in it yet.
Tick ==
    /\ now < MaxTime
    /\ now' = now + 1
    /\ last' = NoCall
    /\ UNCHANGED <<storage, script>>

\* -------------------------------------------------------------- initialize
\* The state initialize leaves (Vetra.sol:174-224), for every TTL it accepts.
InitialConfig == <<"don", 1, 1>>
Configs == {InitialConfig, <<"don", 1, 0>>}

\* if (_reserveTTL == 0 || _gasLimit == 0) revert InvalidConfiguration();
\* (the addresses passed are the non-zero Admin, Minter, Burner and Router)
InitializeOutcome(_reserveTTL, _gasLimit) ==
    IF _reserveTTL = 0 \/ _gasLimit = 0
    THEN Revert("initialize", "InvalidConfiguration", <<>>)
    ELSE Event("initialize", "Initialized", <<>>)

Init ==
    /\ now = 1
    /\ lastReserveUsd = 0
    /\ lastReserveTimestamp = 0
    /\ lastReserveNonce = 0
    /\ reserveTTL \in {t \in 0..MaxTTL : InitializeOutcome(t, InitialConfig[3]).kind = "event"}
    /\ functionsRouter = Router
    /\ chainlink = InitialConfig
    /\ requests = [id \in RequestIds |-> NoRequest]
    /\ totalSupply = TokZero
    /\ balances = [a \in Accounts |-> TokZero]
    /\ roles = [r \in RoleNames |->
                  IF r = DEFAULT_ADMIN_ROLE THEN {Admin}
                  ELSE IF r = MINTER_ROLE THEN {Minter} ELSE {Burner}]
    /\ implementation = "Vetra"
    /\ paused = FALSE
    /\ mintPerTxLimit = TokZero
    /\ allowlistEnabled = FALSE
    /\ allowlist = [a \in Accounts |-> FALSE]
    /\ last = InitializeOutcome(reserveTTL, InitialConfig[3])
    /\ script = NotStarted

\* ------------------------------------------------------------ transactions
\* The reserve gate: mints to and burns by one holder against the oracle's
\* deliveries, the TTL and the clock.
Next ==
    \/ \E caller \in {Minter, User}, to \in {User, ZeroAddress}, amount \in Amounts :
           mint(caller, to, amount)
    \/ \E caller \in {Burner, User}, account \in {User, ZeroAddress}, amount \in Amounts :
           burnFrom(caller, account, amount)
    \/ \E amount \in Amounts :
           burn(User, amount)
    \/ \E caller \in {Router, User}, requestId \in RequestIds,
          response \in Payloads, err \in BOOLEAN :
           handleOracleFulfillment(caller, requestId, abi_decode(response), err)
    \/ \E caller \in {Admin, User}, newTTL \in 0..MaxTTL :
           setReserveTTL(caller, newTTL)
    \/ Tick

Spec == Init /\ [][Next]_vars

\* The policy gate: mints to two recipients against one attestation, under the
\* per-transaction limit, the allowlist, the pause switch and the clock.
PolicyAttestation == [decodes |-> TRUE, usdAmount |-> 1, nonce |-> 1]

NextPolicy ==
    \/ \E caller \in {Minter, User}, to \in {User, Minter, ZeroAddress}, amount \in Amounts :
           mint(caller, to, amount)
    \/ \E caller \in {Burner, User}, account \in {User, ZeroAddress}, amount \in Amounts :
           burnFrom(caller, account, amount)
    \/ \E amount \in Amounts :
           burn(User, amount)
    \/ \E requestId \in RequestIds :
           handleOracleFulfillment(Router, requestId, PolicyAttestation, FALSE)
    \/ \E caller \in {Admin, User}, newLimit \in {TokZero, OneUnit} :
           setMintPerTxLimit(caller, newLimit)
    \/ \E caller \in {Admin, User}, enabled \in BOOLEAN :
           setAllowlistEnabled(caller, enabled)
    \/ \E caller \in {Admin, User}, account \in {User, ZeroAddress}, allowed \in BOOLEAN :
           setAllowlistAddress(caller, account, allowed)
    \/ \E caller \in {Admin, User} : pause(caller)
    \/ \E caller \in {Admin, User} : unpause(caller)
    \/ Tick

SpecPolicy == Init /\ [][NextPolicy]_vars

\* The admin surface: every function guarded by DEFAULT_ADMIN_ROLE, called by
\* the admin and by an account that holds the admin role only while granted.
NextAdmin ==
    \/ \E caller \in {Admin, User} : pause(caller)
    \/ \E caller \in {Admin, User} : unpause(caller)
    \/ \E caller \in {Admin, User}, newTTL \in 0..MaxTTL :
           setReserveTTL(caller, newTTL)
    \/ \E caller \in {Admin, User}, newLimit \in {TokZero, OneUnit} :
           setMintPerTxLimit(caller, newLimit)
    \/ \E caller \in {Admin, User}, enabled \in BOOLEAN :
           setAllowlistEnabled(caller, enabled)
    \/ \E caller \in {Admin, User}, account \in {User, ZeroAddress}, allowed \in BOOLEAN :
           setAllowlistAddress(caller, account, allowed)
    \/ \E caller \in {Admin, User}, router \in {Router, User, ZeroAddress}, config \in Configs :
           updateChainlinkConfig(caller, router, config)
    \/ \E caller \in {Admin, User}, sent \in BOOLEAN, requestId \in RequestIds :
           requestReserveUpdate(caller, sent, requestId)
    \/ \E caller \in {Admin, User} :
           grantRole(caller, DEFAULT_ADMIN_ROLE, User)
    \/ \E caller \in {Admin, User} :
           revokeRole(caller, DEFAULT_ADMIN_ROLE, User)
    \/ \E caller \in {Admin, User}, newImplementation \in Implementations :
           upgradeToAndCall(caller, newImplementation)

SpecAdmin == Init /\ [][NextAdmin]_vars

\* Upgrades of the implementation behind the proxy, between the calls that
\* write the storage the upgrade has to carry over.
NextUpgrade ==
    \/ \E requestId \in RequestIds :
           handleOracleFulfillment(Router, requestId, PolicyAttestation, FALSE)
    \/ \E amount \in {OneUnit, <<1, 0>>} :
           mint(Minter, User, amount)
    \/ \E newTTL \in 1..MaxTTL :
           setReserveTTL(Admin, newTTL)
    \/ \E newLimit \in {TokZero, OneUnit} :
           setMintPerTxLimit(Admin, newLimit)
    \/ \E enabled \in BOOLEAN :
           setAllowlistEnabled(Admin, enabled)
    \/ \E router \in {Router, User} :
           updateChainlinkConfig(Admin, router, InitialConfig)
    \/ grantRole(Admin, MINTER_ROLE, User)
    \/ \E caller \in {Admin, User}, newImplementation \in Implementations :
           upgradeToAndCall(caller, newImplementation)

SpecUpgrade == Init /\ [][NextUpgrade]_vars

\* Every function that writes storage, called by a holder of its role within
\* one block, with deliveries from the router and from a stranger, with and
\* without an error.
NextFrame ==
    \/ mint(Minter, User, OneUnit)
    \/ burnFrom(Burner, User, OneUnit)
    \/ burn(User, OneUnit)
    \/ pause(Admin)
    \/ unpause(Admin)
    \/ setMintPerTxLimit(Admin, OneUnit)
    \/ setAllowlistEnabled(Admin, TRUE)
    \/ setAllowlistAddress(Admin, User, TRUE)
    \/ \E router \in {Router, User} :
           updateChainlinkConfig(Admin, router, InitialConfig)
    \/ \E requestId \in RequestIds :
           requestReserveUpdate(Admin, TRUE, requestId)
    \/ \E caller \in {Router, User}, requestId \in RequestIds,
          nonce \in 1..MaxNonce, err \in BOOLEAN :
           handleOracleFulfillment(caller, requestId,
                                   abi_decode(<<MaxUsd, nonce>>), err)
    \/ \E newTTL \in 1..MaxTTL :
           setReserveTTL(Admin, newTTL)

SpecFrame == Init /\ [][NextFrame]_vars

\* The mintFull script run by the minter while mints by hand, burns and
\* deliveries of the router are mined around it.
NextScript ==
    \/ mintFull_read(Minter)
    \/ mintFull_mint(Minter)
    \/ \E amount \in {OneUnit, <<1, 0>>} :
           mint(Minter, User, amount)
    \/ burn(User, OneUnit)
    \/ \E requestId \in RequestIds, usd \in 0..MaxUsd, nonce \in 1..MaxNonce :
           handleOracleFulfillment(Router, requestId, abi_decode(<<usd, nonce>>), FALSE)

SpecScript == Init /\ [][NextScript]_vars

\* Mints and burns against deliveries whose usd word is at and above the
\* largest value the scaling can take.
NextOverflow ==
    \/ \E amount \in {OneUnit, <<1, 0>>} :
           mint(Minter, User, amount)
    \/ burn(User, OneUnit)
    \/ \E requestId \in RequestIds,
          usd \in {1, MaxScalableUsd, MaxScalableUsd + 1}, nonce \in 1..MaxNonce :
           handleOracleFulfillment(Router, requestId, abi_decode(<<usd, nonce>>), FALSE)

SpecOverflow == Init /\ [][NextOverflow]_vars

\* The capability gate: mints and burns while MINTER_ROLE and BURNER_ROLE are
\* granted, revoked and renounced, against one attestation.
NextRoles ==
    \/ \E caller \in {Minter, User}, amount \in {OneUnit, <<1, 0>>} :
           mint(caller, User, amount)
    \/ \E caller \in {Burner, User} :
           burnFrom(caller, User, OneUnit)
    \/ \E caller \in {User, Burner} :
           burn(caller, OneUnit)
    \/ \E requestId \in RequestIds :
           handleOracleFulfillment(Router, requestId, PolicyAttestation, FALSE)
    \/ \E caller \in {Admin, User}, role \in {MINTER_ROLE, BURNER_ROLE} :
           grantRole(caller, role, User)
    \/ \E caller \in {Admin, User}, role \in {MINTER_ROLE, BURNER_ROLE},
          account \in {Minter, Burner, User} :
           revokeRole(caller, role, account)
    \/ \E caller \in {Minter, Burner, User}, role \in {MINTER_ROLE, BURNER_ROLE},
          callerConfirmation \in {Minter, Burner, User} :
           renounceRole(caller, role, callerConfirmation)

SpecRoles == Init /\ [][NextRoles]_vars

\* ================================================================== claims
\* A mint call that passes the role, pause and input checks of mint.
ValidMint(caller, to, amount) ==
    /\ hasRole(MINTER_ROLE, caller)
    /\ ~paused
    /\ to # ZeroAddress
    /\ amount # TokZero
PolicyAllows(to, amount) ==
    /\ ~(TokGt(mintPerTxLimit, TokZero) /\ TokGt(amount, mintPerTxLimit))
    /\ ~(allowlistEnabled /\ ~allowlist[to])
Capacity == ScaleReserve(lastReserveUsd)
Minted(caller, to, amount) ==
    Event("mint", "TokensMinted",
          <<to, amount, caller, TokAdd(totalSupply, amount), lastReserveUsd, now>>)

\* C1: in every reachable state totalSupply() <= lastReserveUsd * 10^10.
\* (The statement of the claim; the code breaks it when an accepted delivery
\* lowers the reserve below the supply already issued.)
C1_SupplyNeverExceedsReserve ==
    TokLe(totalSupply, Capacity)

\* C2: right after an accepted mint totalSupply() <= lastReserveUsd * 10^10;
\* with a fresh reserve and nothing else in the way, a mint that brings the
\* supply exactly to the capacity is accepted and one that brings it one unit
\* above the capacity reverts with ReserveInsufficient(supply + amount, capacity).
C2_MintWithinCapacity ==
    /\ (last.fn = "mint" /\ last.kind = "event") => TokLe(totalSupply, Capacity)
    /\ \A caller \in Accounts, to \in Accounts, amount \in Amounts :
         (ValidMint(caller, to, amount) /\ isReserveFresh /\ PolicyAllows(to, amount)) =>
           /\ TokAdd(totalSupply, amount) = Capacity =>
                MintOutcome(caller, to, amount) = Minted(caller, to, amount)
           /\ TokAdd(totalSupply, amount) = TokAdd(Capacity, OneUnit) =>
                MintOutcome(caller, to, amount) =
                  Revert("mint", "ReserveInsufficient",
                         <<TokAdd(Capacity, OneUnit), Capacity>>)

\* C2 witness: a mint of one unit above the capacity has just been rejected,
\* after earlier mints had filled the capacity exactly.
C2_Witness ==
    /\ last = Revert("mint", "ReserveInsufficient", <<TokAdd(Capacity, OneUnit), Capacity>>)
    /\ totalSupply = Capacity
    /\ TokGt(totalSupply, TokZero)

\* C3: a delivery that decodes to a nonce <= the stored nonce, sent by the
\* router without an error payload, reverts with NonceNotMonotonic whatever usd
\* value it carries; the revert changes no storage, and the stored attestation
\* only ever changes to an accepted delivery with a nonce above the stored one.
C3_StaleNonceRejected ==
    /\ [](\A requestId \in RequestIds, usd \in 0..MaxUsd, nonce \in 0..lastReserveNonce :
            FulfillmentOutcome(functionsRouter, requestId,
                               [decodes |-> TRUE, usdAmount |-> usd, nonce |-> nonce],
                               FALSE) =
              Revert("handleOracleFulfillment", "NonceNotMonotonic",
                     <<lastReserveNonce, nonce>>))
    /\ [][/\ last'.name = "NonceNotMonotonic" => UNCHANGED storage
          /\ ledger' # ledger =>
               /\ last'.name = "ReserveUpdated"
               /\ last'.args[2] > lastReserveNonce
               /\ ledger' = <<last'.args[1], last'.args[2], now>>]_vars

\* C3 witness: a delivery repeating the stored nonce has just been rejected.
C3_Witness ==
    /\ lastReserveNonce > 0
    /\ last = Revert("handleOracleFulfillment", "NonceNotMonotonic",
                     <<lastReserveNonce, lastReserveNonce>>)

C5_FreshnessBoundaryInclusive ==
    \A caller \in Accounts, to \in Accounts, amount \in Amounts :
      ( /\ lastReserveTimestamp > 0
        /\ ValidMint(caller, to, amount)
        /\ TokLe(TokAdd(totalSupply, amount), Capacity)
        /\ PolicyAllows(to, amount) )
      => /\ now <= lastReserveTimestamp + reserveTTL =>
              MintOutcome(caller, to, amount) = Minted(caller, to, amount)
         /\ now >= lastReserveTimestamp + reserveTTL + 1 =>
              MintOutcome(caller, to, amount) =
                Revert("mint", "ReserveStale", <<now - lastReserveTimestamp, reserveTTL>>)

\* C5 witness: a mint has just been rejected one second past the TTL.
C5_Witness ==
    /\ lastReserveTimestamp > 0
    /\ now = lastReserveTimestamp + reserveTTL + 1
    /\ last = Revert("mint", "ReserveStale", <<reserveTTL + 1, reserveTTL>>)

\* C6: before any attestation has been accepted isReserveFresh() is false,
\* availableMintCapacity() is 0 and every mint that passes the role, pause and
\* input checks reverts with ReserveStale.  (The statement of the claim; mint
\* computes the age from timestamp 0 and lets a TTL >= block.timestamp pass.)
C6_NoAttestationMintIsStale ==
    lastReserveTimestamp = 0 =>
      /\ ~isReserveFresh
      /\ availableMintCapacity = TokZero
      /\ \A caller \in Accounts, to \in Accounts, amount \in Amounts :
           ValidMint(caller, to, amount) =>
             MintOutcome(caller, to, amount).name = "ReserveStale"

\* C7: a mint, burn or burnFrom that reverts, for whatever reason, leaves every
\* storage variable (supply, balances, stored attestation, TTL, limit, allowlist,
\* pause flag, roles, implementation, oracle bookkeeping) as it was.
C7_RejectedCallChangesNothing ==
    [][(last'.kind = "revert" /\ last'.fn \in {"mint", "burn", "burnFrom"}) =>
          UNCHANGED storage]_vars

\* C7 witness: a mint to a recipient off the allowlist has just been rejected
\* while supply is outstanding.
C7_Witness ==
    /\ last.fn = "mint"
    /\ last.name = "RecipientNotAllowed"
    /\ TokGt(totalSupply, TokZero)

\* C8: with a limit L > 0, the allowlist enabled and holding only A, and the
\* reserve fresh and sufficient, a mint of amount <= L to B # A reverts with
\* RecipientNotAllowed, a mint of amount > L to A reverts with
\* MintLimitExceeded, and a mint of amount <= L to A is accepted.
C8_PolicyComposition ==
    \A caller \in Accounts, A \in Accounts, B \in Accounts, amount \in Amounts :
      ( /\ ValidMint(caller, A, amount)
        /\ B # A
        /\ TokGt(mintPerTxLimit, TokZero)
        /\ allowlistEnabled
        /\ \A x \in Accounts : allowlist[x] <=> x = A
        /\ isReserveFresh
        /\ TokLe(TokAdd(totalSupply, amount), Capacity) )
      => /\ TokLe(amount, mintPerTxLimit) =>
              /\ MintOutcome(caller, B, amount) =
                   Revert("mint", "RecipientNotAllowed", <<B>>)
              /\ MintOutcome(caller, A, amount) = Minted(caller, A, amount)
         /\ TokGt(amount, mintPerTxLimit) =>
              MintOutcome(caller, A, amount) =
                Revert("mint", "MintLimitExceeded", <<amount, mintPerTxLimit>>)

\* C8 witness: with the limit set and only User on the enabled allowlist, a mint
\* to Minter has just been rejected as RecipientNotAllowed.
C8_Witness ==
    /\ last = Revert("mint", "RecipientNotAllowed", <<Minter>>)
    /\ TokGt(mintPerTxLimit, TokZero)
    /\ allowlistEnabled
    /\ \A x \in Accounts : allowlist[x] <=> x = User
    /\ isReserveFresh

\* C9 as stated: for a minter's call, amount = 0 reverts with InvalidAmount even
\* with a zero recipient or a paused system, a positive amount to the zero
\* address reverts with InvalidAddress even when paused, and the pause error is
\* reported only when both inputs are valid.
C9_InputsBeforePause ==
    \A caller \in Accounts, to \in Accounts \cup {ZeroAddress}, amount \in Amounts :
      hasRole(MINTER_ROLE, caller) =>
        LET out == MintOutcome(caller, to, amount)
        IN  /\ amount = TokZero => out.name = "InvalidAmount"
            /\ (amount # TokZero /\ to = ZeroAddress) => out.name = "InvalidAddress"
            /\ out.name = "EnforcedPause" => (amount # TokZero /\ to # ZeroAddress)

\* C9 amended: mint checks the caller's role, then the pause flag, then the
\* recipient, then the amount, all before the reserve and policy checks: a
\* caller without MINTER_ROLE gets the access-control error, a minter's call
\* on a paused system gets the pause error whatever its inputs, on an unpaused
\* system a zero recipient gets InvalidAddress even when amount = 0, and
\* InvalidAmount is reported only for a non-zero recipient.
C9_RolePauseRecipientAmount ==
    \A caller \in Accounts, to \in Accounts \cup {ZeroAddress}, amount \in Amounts :
      LET out == MintOutcome(caller, to, amount)
      IN  IF ~hasRole(MINTER_ROLE, caller)
          THEN out = Revert("mint", "AccessControlUnauthorizedAccount",
                            <<caller, MINTER_ROLE>>)
          ELSE IF paused THEN out = Revert("mint", "EnforcedPause", <<>>)
          ELSE IF to = ZeroAddress THEN out = Revert("mint", "InvalidAddress", <<>>)
          ELSE IF amount = TokZero THEN out = Revert("mint", "InvalidAmount", <<>>)
          ELSE out.name \notin {"AccessControlUnauthorizedAccount", "EnforcedPause",
                                "InvalidAddress", "InvalidAmount"}

\* C9 witness: a mint has just been rejected with InvalidAmount while the
\* reserve was stale: the input check came before the reserve check.
C9_Witness ==
    /\ last = Revert("mint", "InvalidAmount", <<>>)
    /\ ~isReserveFresh
    /\ lastReserveTimestamp > 0

\* C10: a mint that passes the role, pause and input checks gets the error of
\* the first failing check in the order freshness, capacity, limit, allowlist.
\* (The statement of the claim, with freshness as isReserveFresh() reports it;
\* before the first attestation mint's own age test can pass, see C6.)
C10_FirstFailingCheck ==
    \A caller \in Accounts, to \in Accounts, amount \in Amounts :
      ValidMint(caller, to, amount) =>
        LET out == MintOutcome(caller, to, amount)
            overCapacity == TokGt(TokAdd(totalSupply, amount), Capacity)
            overLimit == TokGt(mintPerTxLimit, TokZero) /\ TokGt(amount, mintPerTxLimit)
            notAllowed == allowlistEnabled /\ ~allowlist[to]
        IN  IF ~isReserveFresh THEN out.name = "ReserveStale"
            ELSE IF overCapacity THEN out.name = "ReserveInsufficient"
            ELSE IF overLimit THEN out.name = "MintLimitExceeded"
            ELSE IF notAllowed THEN out.name = "RecipientNotAllowed"
            ELSE out.kind = "event"

\* C11: reserveTTL > 0 in every reachable state: initialize rejects a zero TTL,
\* an admin's setReserveTTL(0) reverts with InvalidConfiguration and leaves the
\* TTL as it was, and an admin's setReserveTTL(n) with n > 0 sets the TTL to n.
C11_TTLAlwaysPositive ==
    /\ [](/\ reserveTTL > 0
          /\ InitializeOutcome(0, InitialConfig[3]) =
               Revert("initialize", "InvalidConfiguration", <<>>)
          /\ \A caller \in Accounts :
               hasRole(DEFAULT_ADMIN_ROLE, caller) =>
                 /\ SetReserveTTLOutcome(caller, 0) =
                      Revert("setReserveTTL", "InvalidConfiguration", <<>>)
                 /\ \A n \in 1..MaxTTL :
                      SetReserveTTLOutcome(caller, n) =
                        Event("setReserveTTL", "ReserveTTLUpdated", <<reserveTTL, n>>))
    /\ [][last'.fn = "setReserveTTL" =>
            IF last'.kind = "event"
            THEN reserveTTL' = last'.args[2] /\ last'.args[1] = reserveTTL
            ELSE reserveTTL' = reserveTTL]_vars

\* C11 witness: setReserveTTL(0) has just been rejected, after the TTL had been
\* set to a value the initializer was not given.
C11_Witness ==
    /\ last = Revert("setReserveTTL", "InvalidConfiguration", <<>>)
    /\ reserveTTL = MaxTTL
    /\ lastReserveTimestamp > 0

\* C12: while paused, every mint, burnFrom and burn call reverts, whoever calls
\* and whatever the reserve holds, and such a call changes no storage; when not
\* paused none of them is rejected by the pause check, and only an accepted
\* unpause lowers the pause flag.
C12_PausedRejectsSupplyChanges ==
    /\ [](\A caller \in Accounts, account \in Accounts \cup {ZeroAddress}, amount \in Amounts :
            IF paused
            THEN /\ MintOutcome(caller, account, amount).kind = "revert"
                 /\ BurnFromOutcome(caller, account, amount).kind = "revert"
                 /\ SelfBurnOutcome(caller, amount).kind = "revert"
            ELSE /\ MintOutcome(caller, account, amount).name # "EnforcedPause"
                 /\ BurnFromOutcome(caller, account, amount).name # "EnforcedPause"
                 /\ SelfBurnOutcome(caller, amount).name # "EnforcedPause")
    /\ [][/\ (paused /\ last'.fn \in {"mint", "burn", "burnFrom"}) =>
               (last'.kind = "revert" /\ UNCHANGED storage)
          /\ (paused /\ ~paused') =>
               (last'.fn = "unpause" /\ last'.kind = "event" /\
                hasRole(DEFAULT_ADMIN_ROLE, last'.args[1]))]_vars

\* C12 witness: a holder's self-burn, which its balance covers, has just been
\* rejected because the system is paused.
C12_Witness ==
    /\ paused
    /\ last = Revert("burn", "EnforcedPause", <<>>)
    /\ TokGt(balances[User], TokZero)

\* The rejection every function guarded by onlyRole(DEFAULT_ADMIN_ROLE) gives a
\* caller without the role: the access-control revert, and nothing changed.
RejectedUnchanged(fn, caller) ==
    /\ last' = Revert(fn, "AccessControlUnauthorizedAccount", <<caller, DEFAULT_ADMIN_ROLE>>)
    /\ UNCHANGED storage

\* C13: a call of pause, unpause, setReserveTTL, setMintPerTxLimit,
\* setAllowlistEnabled, setAllowlistAddress, updateChainlinkConfig,
\* requestReserveUpdate, grantRole, revokeRole or upgradeToAndCall by a caller
\* that does not hold DEFAULT_ADMIN_ROLE when it calls reverts with the
\* access-control error and changes no storage, whatever its arguments.
C13_AdminOnly ==
    [][/\ last'.fn = "pause" =>
            \A caller \in Accounts \ roles[DEFAULT_ADMIN_ROLE] :
              pause(caller) => RejectedUnchanged("pause", caller)
       /\ last'.fn = "unpause" =>
            \A caller \in Accounts \ roles[DEFAULT_ADMIN_ROLE] :
              unpause(caller) => RejectedUnchanged("unpause", caller)
       /\ last'.fn = "setReserveTTL" =>
            \A caller \in Accounts \ roles[DEFAULT_ADMIN_ROLE], newTTL \in 0..MaxTTL :
              setReserveTTL(caller, newTTL) => RejectedUnchanged("setReserveTTL", caller)
       /\ last'.fn = "setMintPerTxLimit" =>
            \A caller \in Accounts \ roles[DEFAULT_ADMIN_ROLE], newLimit \in Amounts :
              setMintPerTxLimit(caller, newLimit) =>
                RejectedUnchanged("setMintPerTxLimit", caller)
       /\ last'.fn = "setAllowlistEnabled" =>
            \A caller \in Accounts \ roles[DEFAULT_ADMIN_ROLE], enabled \in BOOLEAN :
              setAllowlistEnabled(caller, enabled) =>
                RejectedUnchanged("setAllowlistEnabled", caller)
       /\ last'.fn = "setAllowlistAddress" =>
            \A caller \in Accounts \ roles[DEFAULT_ADMIN_ROLE],
               account \in {User, ZeroAddress}, allowed \in BOOLEAN :
              setAllowlistAddress(caller, account, allowed) =>
                RejectedUnchanged("setAllowlistAddress", caller)
       /\ last'.fn = "updateChainlinkConfig" =>
            \A caller \in Accounts \ roles[DEFAULT_ADMIN_ROLE],
               router \in {Router, User, ZeroAddress}, config \in Configs :
              updateChainlinkConfig(caller, router, config) =>
                RejectedUnchanged("updateChainlinkConfig", caller)
       /\ last'.fn = "requestReserveUpdate" =>
            \A caller \in Accounts \ roles[DEFAULT_ADMIN_ROLE],
               sent \in BOOLEAN, requestId \in RequestIds :
              requestReserveUpdate(caller, sent, requestId) =>
                RejectedUnchanged("requestReserveUpdate", caller)
       /\ last'.fn = "grantRole" =>
            \A caller \in Accounts \ roles[DEFAULT_ADMIN_ROLE],
               role \in RoleNames, account \in {User, Minter} :
              grantRole(caller, role, account) => RejectedUnchanged("grantRole", caller)
       /\ last'.fn = "revokeRole" =>
            \A caller \in Accounts \ roles[DEFAULT_ADMIN_ROLE],
               role \in RoleNames, account \in {User, Minter} :
              revokeRole(caller, role, account) => RejectedUnchanged("revokeRole", caller)
       /\ last'.fn = "upgradeToAndCall" =>
            \A caller \in Accounts \ roles[DEFAULT_ADMIN_ROLE],
               newImplementation \in Implementations :
              upgradeToAndCall(caller, newImplementation) =>
                RejectedUnchanged("upgradeToAndCall", caller)]_vars

\* C13 witness: an account that submitted a reserve request while it held the
\* admin role has lost the role, and its next request has just been rejected.
C13_Witness ==
    /\ \E id \in RequestIds : requests[id].requester = User
    /\ ~hasRole(DEFAULT_ADMIN_ROLE, User)
    /\ last = Unauthorized("requestReserveUpdate", User)

\* C14: a caller without MINTER_ROLE cannot mint and a caller without
\* BURNER_ROLE cannot burnFrom, by the roles held when the call is made; a
\* self-burn asks for no role; a role leaves an account when an admin revokes
\* it or the account renounces it, and a renounceRole naming another account
\* reverts and changes nothing.
C14_SupplyChangesGatedByRoles ==
    /\ [](\A caller \in Accounts, account \in Accounts, amount \in Amounts :
            /\ ~hasRole(MINTER_ROLE, caller) =>
                 MintOutcome(caller, account, amount) =
                   Revert("mint", "AccessControlUnauthorizedAccount", <<caller, MINTER_ROLE>>)
            /\ ~hasRole(BURNER_ROLE, caller) =>
                 BurnFromOutcome(caller, account, amount) =
                   Revert("burnFrom", "AccessControlUnauthorizedAccount",
                          <<caller, BURNER_ROLE>>)
            /\ (amount # TokZero /\ TokLe(amount, balances[caller]) /\ ~paused) =>
                 SelfBurnOutcome(caller, amount).kind = "event"
            /\ account # caller =>
                 \A role \in RoleNames :
                   RenounceRoleOutcome(caller, role, account) =
                     Revert("renounceRole", "AccessControlBadConfirmation", <<>>))
    /\ [][/\ last'.name = "TokensMinted" => hasRole(MINTER_ROLE, last'.args[3])
          /\ (last'.fn = "burnFrom" /\ last'.kind = "event") =>
               hasRole(BURNER_ROLE, last'.args[3])
          /\ last'.name = "RoleRevoked" =>
               /\ roles' = [roles EXCEPT ![last'.args[1]] = @ \ {last'.args[2]}]
               /\ last'.fn = "revokeRole" => hasRole(DEFAULT_ADMIN_ROLE, last'.args[3])
               /\ last'.fn = "renounceRole" => last'.args[3] = last'.args[2]
          /\ (last'.fn = "renounceRole" /\ last'.kind = "revert") => UNCHANGED storage]_vars

\* C14 witness: the minter, whose earlier mint is still outstanding, holds
\* MINTER_ROLE no more and its mint has just been rejected.
C14_Witness ==
    /\ last = Revert("mint", "AccessControlUnauthorizedAccount", <<Minter, MINTER_ROLE>>)
    /\ roles[MINTER_ROLE] = {}
    /\ TokGt(totalSupply, TokZero)
    /\ isReserveFresh

\* C15: burning checks no reserve: a burnFrom by a BURNER_ROLE caller, or a
\* self-burn, of a positive amount the account's balance covers, on an unpaused
\* system, is accepted whether or not an attestation exists, is fresh, or
\* covers the supply; it lowers totalSupply and the account's balance by
\* exactly the amount and nothing else, so totalSupply <= capacity survives it.
C15_BurnNeedsNoReserve ==
    /\ [](\A caller \in Accounts, account \in Accounts, amount \in Amounts :
            (amount # TokZero /\ TokLe(amount, balances[account]) /\ ~paused) =>
              /\ hasRole(BURNER_ROLE, caller) =>
                   BurnFromOutcome(caller, account, amount) =
                     Event("burnFrom", "TokensBurned",
                           <<account, amount, caller, TokSub(totalSupply, amount), now>>)
              /\ SelfBurnOutcome(account, amount) =
                   Event("burn", "TokensBurned",
                         <<account, amount, account, TokSub(totalSupply, amount), now>>))
    /\ [][last'.name = "TokensBurned" =>
            /\ totalSupply' = TokSub(totalSupply, last'.args[2])
            /\ balances' = [balances EXCEPT ![last'.args[1]] = TokSub(@, last'.args[2])]
            /\ TokLt(totalSupply', totalSupply)
            /\ UNCHANGED <<ledger, reserveTTL, oracle, access, paused, policy>>
            /\ TokLe(totalSupply, Capacity) => TokLe(totalSupply', Capacity')]_vars

\* C15 witness: a burn has just been accepted while the attestation is stale
\* and the supply, also after the burn, is above the capacity.
C15_Witness ==
    /\ last.name = "TokensBurned"
    /\ ~isReserveFresh
    /\ TokGt(totalSupply, Capacity)

C17_NotTwoWordsRejected ==
    \A requestId \in RequestIds, response \in Payloads :
      Len(response) # 2 =>
        FulfillmentOutcome(functionsRouter, requestId, abi_decode(response), FALSE).kind
          = "revert"

\* C17 amended: a delivery from the router, without an error payload, whose
\* response is shorter than two words reverts in abi.decode, with no typed
\* error; the revert discards the attestation and changes no storage, neither
\* the stored attestation nor the request bookkeeping.  A response longer than
\* two words is decoded from its first two words and treated as that pair.
C17_ShortResponseReverts ==
    /\ [](\A requestId \in RequestIds, response \in Payloads :
            LET out == FulfillmentOutcome(functionsRouter, requestId,
                                          abi_decode(response), FALSE)
            IN  IF Len(response) < 2
                THEN out = Revert("handleOracleFulfillment", "abi.decode", <<>>)
                ELSE IF response[2] <= lastReserveNonce
                THEN out = Revert("handleOracleFulfillment", "NonceNotMonotonic",
                                  <<lastReserveNonce, response[2]>>)
                ELSE out = Event("handleOracleFulfillment", "ReserveUpdated",
                                 <<response[1], response[2], now, requestId>>))
    /\ [][last'.name = "abi.decode" => UNCHANGED storage]_vars

\* C17 witness: a response that does not decode has just been rejected, in a
\* block after the one whose attestation is still the stored one.
C17_Witness ==
    /\ last = Revert("handleOracleFulfillment", "abi.decode", <<>>)
    /\ lastReserveNonce > 0
    /\ lastReserveTimestamp < now

\* C18 as stated: once requests[id].fulfilled is set, every further delivery
\* for id is rejected, whatever nonce and value it carries.
C18_RedeliveryRejected ==
    \A requestId \in RequestIds :
      requests[requestId].fulfilled =>
        \A response \in Payloads, err \in BOOLEAN :
          FulfillmentOutcome(functionsRouter, requestId, abi_decode(response), err).kind
            = "revert"

\* C18 amended: the fulfilled flag of a request decides nothing: a further
\* delivery for an already fulfilled id goes through the checks of a first
\* one.  With an error payload it returns; otherwise, carrying a nonce <= the
\* stored nonce it reverts with NonceNotMonotonic and leaves the stored
\* attestation alone, and carrying a higher nonce it is accepted and replaces
\* the stored attestation.
C18_RedeliveryJudgedByNonce ==
    /\ [](\A requestId \in RequestIds :
            requests[requestId].fulfilled =>
              \A usd \in 0..MaxUsd, nonce \in 0..MaxNonce :
                /\ FulfillmentOutcome(functionsRouter, requestId,
                                      abi_decode(<<usd, nonce>>), TRUE) =
                     Return("handleOracleFulfillment")
                /\ FulfillmentOutcome(functionsRouter, requestId,
                                      abi_decode(<<usd, nonce>>), FALSE) =
                     IF nonce <= lastReserveNonce
                     THEN Revert("handleOracleFulfillment", "NonceNotMonotonic",
                                 <<lastReserveNonce, nonce>>)
                     ELSE Event("handleOracleFulfillment", "ReserveUpdated",
                                <<usd, nonce, now, requestId>>))
    /\ [][\A requestId \in RequestIds :
            (requests[requestId].fulfilled /\ last'.fn = "handleOracleFulfillment") =>
              /\ requests' = requests
              /\ IF last'.kind = "event"
                 THEN /\ last'.args[2] > lastReserveNonce
                      /\ ledger' = <<last'.args[1], last'.args[2], now>>
                 ELSE ledger' = ledger]_vars

\* C18 witness: a delivery for the one request id has just been accepted and
\* has lowered the reserve to 0 under a supply minted against an earlier
\* accepted delivery, which had marked that id fulfilled.
C18_Witness ==
    /\ last.name = "ReserveUpdated"
    /\ requests[last.args[4]].fulfilled
    /\ RequestIds = {last.args[4]}
    /\ lastReserveUsd = 0
    /\ TokGt(totalSupply, TokZero)

\* C19 as stated: a request becomes fulfilled only in a step that accepts a
\* delivery for it and applies it to the stored attestation; a delivery that
\* is not accepted leaves every request as it was.
C19_FulfilledOnlyOnAccept ==
    [][/\ \A requestId \in RequestIds :
            (requests'[requestId].fulfilled /\ ~requests[requestId].fulfilled) =>
              /\ last'.name = "ReserveUpdated"
              /\ last'.args[4] = requestId
              /\ ledger' = <<last'.args[1], last'.args[2], now>>
       /\ (last'.fn = "handleOracleFulfillment" /\ last'.kind # "event") =>
            requests' = requests]_vars

\* C19 amended: a request becomes fulfilled in every delivery from the router
\* for it that does not revert: one that is accepted and applied, and also one
\* that carries an error payload and is ignored, which changes no attestation.
\* A delivery that reverts (undecodable response, nonce not above the stored
\* one, caller not the router) leaves every request as it was.
C19_FulfilledUnlessReverted ==
    [][/\ \A requestId \in RequestIds :
            (requests'[requestId].fulfilled /\ ~requests[requestId].fulfilled) =>
              /\ last'.fn = "handleOracleFulfillment"
              /\ last'.kind \in {"event", "return"}
       /\ last'.name = "ReserveUpdated" =>
            /\ requests' = [requests EXCEPT ![last'.args[4]].fulfilled = TRUE]
            /\ ledger' = <<last'.args[1], last'.args[2], now>>
       /\ last' = Return("handleOracleFulfillment") =>
            /\ ledger' = ledger
            /\ \E requestId \in RequestIds :
                 requests' = [requests EXCEPT ![requestId].fulfilled = TRUE]
       /\ (last'.fn = "handleOracleFulfillment" /\ last'.kind = "revert") =>
            requests' = requests]_vars

\* C19 witness: a request is marked fulfilled by a delivery with an error
\* payload while no attestation has ever been applied.
C19_Witness ==
    /\ last = Return("handleOracleFulfillment")
    /\ \E requestId \in RequestIds : requests[requestId].fulfilled
    /\ lastReserveTimestamp = 0
    /\ lastReserveNonce = 0

\* C20 as stated: while no attestation has been accepted, a well-formed
\* delivery from the router is accepted for every nonce >= 0.
C20_FirstDeliveryAnyNonce ==
    lastReserveTimestamp = 0 =>
      \A requestId \in RequestIds, usd \in 0..MaxUsd, nonce \in 0..MaxNonce :
        FulfillmentOutcome(functionsRouter, requestId, abi_decode(<<usd, nonce>>), FALSE) =
          Event("handleOracleFulfillment", "ReserveUpdated", <<usd, nonce, now, requestId>>)

\* C20 amended: while no attestation has been accepted the stored nonce is the
\* 0 that initialize wrote, and the monotonicity check runs against it: a
\* well-formed delivery from the router is accepted for every nonce >= 1, and
\* with nonce = 0 it reverts with NonceNotMonotonic(0, 0).
C20_FirstDeliveryNonceAboveZero ==
    /\ [](lastReserveTimestamp = 0 =>
            /\ lastReserveNonce = 0
            /\ \A requestId \in RequestIds, usd \in 0..MaxUsd, nonce \in 0..MaxNonce :
                 FulfillmentOutcome(functionsRouter, requestId,
                                    abi_decode(<<usd, nonce>>), FALSE) =
                   IF nonce = 0
                   THEN Revert("handleOracleFulfillment", "NonceNotMonotonic", <<0, 0>>)
                   ELSE Event("handleOracleFulfillment", "ReserveUpdated",
                              <<usd, nonce, now, requestId>>))
    /\ [][(lastReserveTimestamp = 0 /\ lastReserveTimestamp' # 0) =>
            /\ last'.name = "ReserveUpdated"
            /\ last'.args[2] >= 1
            /\ ledger' = <<last'.args[1], last'.args[2], now>>]_vars

\* C20 witness: the first well-formed delivery, carrying nonce 0, has just been
\* rejected while no attestation has been accepted.
C20_Witness ==
    /\ lastReserveTimestamp = 0
    /\ last = Revert("handleOracleFulfillment", "NonceNotMonotonic", <<0, 0>>)

\* C21: an accepted attestation is stamped with the current time, never with
\* a word of the payload: right after any accepted delivery the ledger's
\* timestamp and the event's timestamp are `now`, reserveAge() is 0 and
\* isReserveFresh() is true, whatever the payload holds.
C21_AcceptedStampedNow ==
    last.name = "ReserveUpdated" =>
        /\ lastReserveTimestamp = now
        /\ last.args[3] = now
        /\ lastReserveUsd = last.args[1]
        /\ lastReserveNonce = last.args[2]
        /\ reserveAge = 0
        /\ isReserveFresh

\* An accepted delivery whose payload words both differ from the clock.
C21_Witness ==
    /\ last.name = "ReserveUpdated"
    /\ last.args[1] # now
    /\ last.args[2] # now
    /\ reserveAge = 0
    /\ isReserveFresh

\* C23: a mint is authorized and applied in one step, against the state it is
\* applied to: the step of an accepted mint changes nothing but the supply and
\* the recipient's balance, raises totalSupply by exactly the amount and leaves
\* it within the capacity in force in that step; a rejected mint changes
\* nothing; and a request that fits the capacity alone but not on top of the
\* supply already issued is rejected.
C23_MintAtomic ==
    /\ [](\A caller \in Accounts, to \in Accounts, amount \in Amounts :
            ( /\ TokLe(amount, Capacity)
              /\ TokGt(TokAdd(totalSupply, amount), Capacity) )
            => MintOutcome(caller, to, amount).kind = "revert")
    /\ [][last'.fn = "mint" =>
            IF last'.kind = "event"
            THEN /\ UNCHANGED <<now, ledger, reserveTTL, oracle, access, paused, policy>>
                 /\ totalSupply' = TokAdd(totalSupply, last'.args[2])
                 /\ balances' = [balances EXCEPT ![last'.args[1]] =
                                    TokAdd(balances[last'.args[1]], last'.args[2])]
                 /\ TokLe(totalSupply', Capacity)
            ELSE UNCHANGED storage]_vars

\* A mint that fits the capacity alone has just been rejected with
\* ReserveInsufficient because of the supply accepted before it.
C23_Witness ==
    /\ last.fn = "mint"
    /\ last.name = "ReserveInsufficient"
    /\ TokGt(totalSupply, TokZero)
    /\ TokLe(totalSupply, Capacity)
    /\ TokLe(TokSub(last.args[1], totalSupply), Capacity)

\* C24: an upgrade by an admin changes the implementation and nothing else:
\* roles, reserveTTL, the router / DON / subscription configuration, the stored
\* attestation, the policy settings, the pause flag, balances and totalSupply
\* are the same after the step as before it.
C24_UpgradePreservesStorage ==
    [][last'.name = "Upgraded" =>
          /\ implementation' = last'.args[1]
          /\ UNCHANGED <<roles, reserveTTL, oracle, ledger, policy, paused, supply, now>>]_vars

\* An upgrade to VetraV2 has just gone through over storage that is no longer
\* the freshly initialized one.
C24_Witness ==
    /\ last.name = "Upgraded"
    /\ implementation = "VetraV2"
    /\ hasRole(MINTER_ROLE, User)
    /\ functionsRouter # Router
    /\ lastReserveNonce > 0
    /\ TokGt(totalSupply, TokZero)
    /\ mintPerTxLimit # TokZero
    /\ allowlistEnabled

\* C25: availableMintCapacity() is lastReserveUsd * 10^10 - totalSupply() when
\* that is positive and 0 otherwise, so it is never below 0, also when an
\* accepted attestation has lowered the reserve below the supply; with a fresh
\* reserve and the policies permitting, a mint of exactly
\* availableMintCapacity() > 0 is accepted, and it brings
\* availableMintCapacity() to 0.
C25_AvailableCapacity ==
    /\ [](/\ availableMintCapacity =
               (IF TokGt(Capacity, totalSupply) THEN TokSub(Capacity, totalSupply)
                ELSE TokZero)
          /\ TokLe(TokZero, availableMintCapacity)
          /\ \A caller \in Accounts, to \in Accounts :
               ( /\ ValidMint(caller, to, availableMintCapacity)
                 /\ isReserveFresh
                 /\ PolicyAllows(to, availableMintCapacity) )
               => MintOutcome(caller, to, availableMintCapacity) =
                    Minted(caller, to, availableMintCapacity))
    /\ [][(last'.name = "TokensMinted" /\ last'.args[2] = availableMintCapacity)
            => availableMintCapacity' = TokZero]_vars

\* The one unit of capacity that a burn had opened has just been minted: the
\* mint was of exactly availableMintCapacity() and left it at 0.
C25_Witness ==
    /\ last.name = "TokensMinted"
    /\ last.args[2] = OneUnit
    /\ TokGt(totalSupply, OneUnit)
    /\ totalSupply = Capacity
    /\ availableMintCapacity = TokZero

\* C26: reserveAge() is the sentinel type(uint256).max exactly as long as no
\* attestation has been accepted; from the first accepted attestation on it is
\* now minus the time of the last acceptance, and that is never negative.
C26_ReserveAge ==
    /\ [](/\ (reserveAge = MaxUint256) <=> (lastReserveTimestamp = 0)
          /\ lastReserveTimestamp # 0 =>
                /\ reserveAge = now - lastReserveTimestamp
                /\ reserveAge >= 0
          /\ lastReserveTimestamp <= now)
    /\ [][/\ last'.name = "ReserveUpdated" =>
                (lastReserveTimestamp' = now /\ lastReserveTimestamp' # 0)
          /\ last'.name # "ReserveUpdated" =>
                lastReserveTimestamp' = lastReserveTimestamp]_vars

\* Some blocks after an accepted attestation: the age is positive and finite.
C26_Witness ==
    /\ lastReserveTimestamp # 0
    /\ reserveAge = now - lastReserveTimestamp
    /\ reserveAge >= 1
    /\ reserveAge < MaxUint256

\* C27: the TokensMinted record of an accepted mint carries, as
\* totalSupplyAfter, the supply before the call plus the amount (the supply
\* after it), and as reserve value the lastReserveUsd the reserve check used,
\* so totalSupplyAfter <= reserve value * 10^10 in every mint record.
C27_MintRecord ==
    [][last'.name = "TokensMinted" =>
          /\ last'.args[4] = TokAdd(totalSupply, last'.args[2])
          /\ last'.args[4] = totalSupply'
          /\ last'.args[5] = lastReserveUsd
          /\ last'.args[5] = lastReserveUsd'
          /\ TokLe(last'.args[4], ScaleReserve(last'.args[5]))]_vars

\* The record of a mint on top of earlier supply that reached the reserve
\* value exactly.
C27_Witness ==
    /\ last.name = "TokensMinted"
    /\ TokGt(last.args[4], last.args[2])
    /\ last.args[4] = ScaleReserve(last.args[5])
    /\ last.args[4] = totalSupply

\* C28: the stored attestation (usd, nonce, timestamp) changes only in the
\* step of an accepted oracle delivery and reserveTTL only in a setReserveTTL
\* step: mint, burn, burnFrom, pause, unpause, setMintPerTxLimit,
\* setAllowlistEnabled, setAllowlistAddress, updateChainlinkConfig and
\* requestReserveUpdate leave all four as they were; and an accepted delivery
\* leaves totalSupply, balances, the policy settings, the pause flag and
\* reserveTTL as they were.
C28_LedgerAndTTLFrame ==
    [][/\ ledger' # ledger => last'.name = "ReserveUpdated"
       /\ reserveTTL' # reserveTTL => last'.name = "ReserveTTLUpdated"
       /\ last'.fn \in {"mint", "burn", "burnFrom", "pause", "unpause",
                        "setMintPerTxLimit", "setAllowlistEnabled",
                        "setAllowlistAddress", "updateChainlinkConfig",
                        "requestReserveUpdate"}
            => UNCHANGED <<ledger, reserveTTL>>
       /\ last'.name = "ReserveUpdated"
            => UNCHANGED <<supply, policy, paused, reserveTTL>>]_vars

\* The oracle configuration has just been changed while an attestation is
\* stored, supply is issued, the contract is paused and the policies are set.
C28_Witness ==
    /\ last.name = "ChainlinkConfigUpdated"
    /\ functionsRouter = User
    /\ lastReserveNonce > 0
    /\ lastReserveTimestamp = now
    /\ TokGt(totalSupply, TokZero)
    /\ paused
    /\ allowlistEnabled

\* C29: a disabled policy rejects nothing and the limit's boundary is
\* inclusive: with mintPerTxLimit = 0 no amount is rejected by the limit check,
\* with allowlistEnabled = false no recipient is rejected by the allowlist
\* check even if its entry is false, and with both disabled a mint that passes
\* the other checks is accepted; with a limit L > 0 a mint of exactly L passes
\* the limit check and a mint of L + 1 fails it with MintLimitExceeded(L + 1, L).
C29_DisabledPoliciesPass ==
    \A caller \in Accounts, to \in Accounts,
       amount \in Amounts \cup {mintPerTxLimit, TokAdd(mintPerTxLimit, OneUnit)} :
      LET out == MintOutcome(caller, to, amount)
          passesTheRest == /\ ValidMint(caller, to, amount)
                           /\ isReserveFresh
                           /\ TokLe(TokAdd(totalSupply, amount), Capacity)
      IN  /\ mintPerTxLimit = TokZero => out.name # "MintLimitExceeded"
          /\ ~allowlistEnabled => out.name # "RecipientNotAllowed"
          /\ (mintPerTxLimit = TokZero /\ ~allowlistEnabled /\ passesTheRest)
               => out = Minted(caller, to, amount)
          /\ (TokGt(mintPerTxLimit, TokZero) /\ passesTheRest) =>
               /\ amount = mintPerTxLimit =>
                    /\ out.name # "MintLimitExceeded"
                    /\ ~RecipientBlocked(to) => out = Minted(caller, to, amount)
               /\ amount = TokAdd(mintPerTxLimit, OneUnit) =>
                    out = Revert("mint", "MintLimitExceeded", <<amount, mintPerTxLimit>>)

\* With the limit at 0 and the allowlist disabled, a mint of the whole capacity
\* to a recipient whose allowlist entry is false has just been accepted.
C29_Witness ==
    /\ last.name = "TokensMinted"
    /\ last.args[2] = <<1, 0>>
    /\ mintPerTxLimit = TokZero
    /\ ~allowlistEnabled
    /\ ~allowlist[last.args[1]]

\* More than reserveTTL seconds have passed since the last accepted attestation.
ReserveExpired ==
    /\ lastReserveTimestamp > 0
    /\ now - lastReserveTimestamp > reserveTTL

\* C30: freshness depends on the time since the last accepted attestation
\* only: a delivery that is rejected or ignored (caller not the router, error
\* payload, undecodable payload, nonce not above the stored one) leaves the
\* stored timestamp as it was; once more than reserveTTL seconds have passed
\* since the last acceptance every otherwise valid mint reverts with
\* ReserveStale(age, reserveTTL), and that ends only with the acceptance of a
\* new attestation or with a raise of the TTL.
C30_StaleUntilRefreshed ==
    /\ [](ReserveExpired =>
            \A caller \in Accounts, to \in Accounts, amount \in Amounts :
                ValidMint(caller, to, amount) =>
                    MintOutcome(caller, to, amount) =
                      Revert("mint", "ReserveStale",
                             <<now - lastReserveTimestamp, reserveTTL>>))
    /\ [][/\ (last'.fn = "handleOracleFulfillment" /\ last'.name # "ReserveUpdated")
                => lastReserveTimestamp' = lastReserveTimestamp
          /\ (ReserveExpired /\ ~ReserveExpired')
                => \/ last'.name = "ReserveUpdated"
                   \/ (last'.name = "ReserveTTLUpdated" /\ reserveTTL' > reserveTTL)]_vars

\* The router's delivery with a used nonce has just been rejected while the
\* stored attestation is older than the TTL: it still is.
C30_Witness ==
    /\ last.fn = "handleOracleFulfillment"
    /\ last.name = "NonceNotMonotonic"
    /\ ReserveExpired

\* C31: in every reachable state a mint that passes the role, pause and input
\* checks passes the freshness step if and only if isReserveFresh() is true,
\* and the age a ReserveStale revert reports is the value of reserveAge().
\* (The statement of the claim; before the first attestation mint computes
\* the age from timestamp 0, where the queries answer false and the sentinel,
\* see C6.)
C31_MintFreshnessAgreesWithQuery ==
    \A caller \in Accounts, to \in Accounts, amount \in Amounts :
      ValidMint(caller, to, amount) =>
        LET out == MintOutcome(caller, to, amount)
        IN  /\ (out.name # "ReserveStale") <=> isReserveFresh
            /\ out.name = "ReserveStale" => out.args[1] = reserveAge

\* C32: no mint is accepted before the first accepted attestation, whatever
\* the TTL (also a TTL not smaller than the current time) and the policy
\* settings: in every reachable state with lastReserveTimestamp = 0 the supply
\* and every balance are 0 and every mint call reverts.
C32_NoMintBeforeAttestation ==
    lastReserveTimestamp = 0 =>
      /\ totalSupply = TokZero
      /\ \A a \in DOMAIN balances : balances[a] = TokZero
      /\ \A caller \in Accounts, to \in Accounts \cup {ZeroAddress}, amount \in Amounts :
           MintOutcome(caller, to, amount).kind = "revert"

\* Before any attestation, with a TTL that has not run out on the clock and
\* both policies switched on, the minter's mint has just been rejected for
\* lack of reserve.
C32_Witness ==
    /\ lastReserveTimestamp = 0
    /\ reserveTTL >= now
    /\ TokGt(mintPerTxLimit, TokZero)
    /\ allowlistEnabled
    /\ last.fn = "mint"
    /\ last.name = "ReserveInsufficient"

\* C33: only the router configured at the time of the call can deliver: a
\* handleOracleFulfillment call from any other caller reverts with
\* InvalidAddress and changes no storage, whatever it carries; an accepted
\* updateChainlinkConfig makes its router argument the configured router, so
\* from then on the previous router is rejected, also for a request submitted
\* before the change, and a well-formed delivery with a higher nonce from the
\* new router is accepted.
C33_OnlyConfiguredRouterDelivers ==
    /\ [](\A caller \in Accounts, requestId \in RequestIds,
             response \in Responses, err \in BOOLEAN :
            caller # functionsRouter =>
                FulfillmentOutcome(caller, requestId, response, err) =
                  Revert("handleOracleFulfillment", "InvalidAddress", <<>>))
    /\ [](\A requestId \in RequestIds, usd \in 0..MaxUsd, nonce \in 0..MaxNonce :
            nonce > lastReserveNonce =>
                FulfillmentOutcome(functionsRouter, requestId,
                                   abi_decode(<<usd, nonce>>), FALSE) =
                  Event("handleOracleFulfillment", "ReserveUpdated",
                        <<usd, nonce, now, requestId>>))
    /\ [][/\ (last'.fn = "handleOracleFulfillment" /\ last'.name = "InvalidAddress")
                => UNCHANGED storage
          /\ last'.name = "ChainlinkConfigUpdated"
                => functionsRouter' = last'.args[1]]_vars

\* After the router was replaced, a delivery for the request submitted earlier
\* has just been rejected with InvalidAddress: the request is still open and
\* the attestation the previous router had delivered is still the stored one.
C33_Witness ==
    /\ functionsRouter = User
    /\ last = Revert("handleOracleFulfillment", "InvalidAddress", <<>>)
    /\ \E requestId \in RequestIds :
          /\ requests[requestId].requester = Admin
          /\ ~requests[requestId].fulfilled
    /\ lastReserveNonce = 1

\* C34 as stated: the stored attestation is updated only by a delivery for a
\* request id that was submitted through requestReserveUpdate before: right
\* after an accepted delivery the request of its id has a requester.
C34_DeliveryNeedsRequest ==
    last.name = "ReserveUpdated" =>
        requests[last.args[4]].requester # ZeroAddress

\* C34 amended: the request id plays no part in the acceptance of a delivery:
\* the configured router's well-formed delivery with a higher nonce is
\* accepted also for a request id that was never submitted; the accepted
\* delivery stores its usd value and nonce, marks requests[id] fulfilled and
\* leaves the requester and timestamp of that entry as they were (zero, for an
\* id never submitted).
C34_DeliveryNeedsNoRequest ==
    /\ [](\A requestId \in RequestIds, usd \in 0..MaxUsd, nonce \in 0..MaxNonce :
            (requests[requestId].requester = ZeroAddress /\ nonce > lastReserveNonce) =>
                FulfillmentOutcome(functionsRouter, requestId,
                                   abi_decode(<<usd, nonce>>), FALSE).name = "ReserveUpdated")
    /\ [][last'.name = "ReserveUpdated" =>
            /\ requests' = [requests EXCEPT ![last'.args[4]].fulfilled = TRUE]
            /\ lastReserveUsd' = last'.args[1]
            /\ lastReserveNonce' = last'.args[2]]_vars

\* An attestation has just been accepted for a request id nobody submitted.
C34_Witness ==
    /\ last.name = "ReserveUpdated"
    /\ requests[last.args[4]] = [NoRequest EXCEPT !.fulfilled = TRUE]
    /\ lastReserveNonce = last.args[2]
    /\ lastReserveUsd = last.args[1]

\* C35 as stated: the mint transaction of the mintFull script, sent with the
\* amount computed from what the script read earlier, never fails with
\* ReserveInsufficient, and right after it totalSupply = lastReserveUsd * 10^10,
\* whatever was mined between the reads and the mint.
C35_ReadThenMintNeverFails ==
    [][(script.pc = "mint" /\ script'.pc # "mint") =>
          /\ last'.name # "ReserveInsufficient"
          /\ totalSupply' = ScaleReserve(lastReserveUsd')]_vars

\* C35 amended: the script's mint is judged against the state it is mined in.
\* If totalSupply and lastReserveUsd are still what the script read, it is
\* accepted and brings totalSupply to lastReserveUsd * 10^10.  If a mint or a
\* delivery mined in between has left less capacity than the amount, it
\* reverts with ReserveInsufficient(supply + amount, capacity) and changes
\* nothing; if it is accepted after such a change, totalSupply ends at the
\* supply found plus the amount, within the capacity but not necessarily at it.
C35_ReadThenMintRaces ==
    [][(script.pc = "mint" /\ script'.pc # "mint") =>
          /\ (totalSupply = script.totalSupply /\ lastReserveUsd = script.lastReserveUsd)
               => /\ last'.name = "TokensMinted"
                  /\ last'.args[2] = maxMintable
                  /\ totalSupply' = ScaleReserve(lastReserveUsd')
          /\ TokGt(TokAdd(totalSupply, maxMintable), Capacity)
               => /\ last' = Revert("mint", "ReserveInsufficient",
                                    <<TokAdd(totalSupply, maxMintable), Capacity>>)
                  /\ UNCHANGED storage
          /\ last'.kind = "event"
               => /\ totalSupply' = TokAdd(totalSupply, maxMintable)
                  /\ TokLe(totalSupply', Capacity)
                  /\ UNCHANGED ledger]_vars

\* The script has just minted the rest of the capacity it had read, on top of
\* supply issued before it started.
C35_Witness ==
    /\ script.pc = "minted"
    /\ last.name = "TokensMinted"
    /\ last.args[2] = maxMintable
    /\ TokGt(script.totalSupply, TokZero)
    /\ totalSupply = ScaleReserve(script.lastReserveUsd)
    /\ totalSupply = Capacity

\* The exact product lastReserveUsd * 10^10 is above type(uint256).max.
ProductExceedsUint256 == lastReserveUsd > MaxScalableUsd

\* C36: the scaling lastReserveUsd * 10^10 never yields a wrapped value: the
\* oracle can store a usd word whose product exceeds uint256, and while such a
\* word is stored availableMintCapacity() aborts and every mint call reverts
\* (with the arithmetic panic once it has passed the role, pause, input and
\* freshness checks) without changing storage; every accepted mint is within
\* the exact product.
C36_NoOverflowedCapacity ==
    /\ [](ProductExceedsUint256 =>
            /\ AvailableMintCapacityOutcome =
                  Revert("availableMintCapacity", "Panic", <<17>>)
            /\ \A caller \in Accounts, to \in Accounts, amount \in Amounts :
                 LET out == MintOutcome(caller, to, amount)
                 IN  /\ out.kind = "revert"
                     /\ (ValidMint(caller, to, amount) /\ isReserveFresh)
                          => out = Revert("mint", "Panic", <<17>>))
    /\ [](~ProductExceedsUint256 =>
            AvailableMintCapacityOutcome.args = <<availableMintCapacity>>)
    /\ [][/\ last'.name = "Panic" => UNCHANGED storage
          /\ last'.name = "TokensMinted" =>
                /\ ~ProductExceedsUint256
                /\ TokLe(totalSupply', ScaleReserve(lastReserveUsd))]_vars

\* The oracle's stored usd word is too large to scale, and a mint on top of
\* issued supply has just been aborted by the arithmetic panic.
C36_Witness ==
    /\ lastReserveUsd = MaxScalableUsd + 1
    /\ last = Revert("mint", "Panic", <<17>>)
    /\ TokGt(totalSupply, TokZero)

\* C37: the pause gates supply changes only.  While paused, a well-formed
\* delivery with a higher nonce from the configured router is accepted and
\* becomes the stored attestation, and the admin's setReserveTTL,
\* setMintPerTxLimit, setAllowlistEnabled, setAllowlistAddress and
\* updateChainlinkConfig calls go through and take effect; unpause itself
\* changes none of them, so right after unpause a mint is accepted or rejected
\* for lack of reserve according to the attestation stored at that moment.
C37_PauseGatesOnlySupply ==
    /\ [](paused =>
            \A requestId \in RequestIds, usd \in 0..MaxUsd, nonce \in 0..MaxNonce :
                nonce > lastReserveNonce =>
                    FulfillmentOutcome(functionsRouter, requestId,
                                       abi_decode(<<usd, nonce>>), FALSE) =
                      Event("handleOracleFulfillment", "ReserveUpdated",
                            <<usd, nonce, now, requestId>>))
    /\ [](last.name = "Unpaused" =>
            \A caller \in Accounts, to \in Accounts, amount \in Amounts :
                ( /\ ValidMint(caller, to, amount)
                  /\ isReserveFresh
                  /\ PolicyAllows(to, amount) )
                => IF TokLe(TokAdd(totalSupply, amount), ScaleReserve(lastReserveUsd))
                   THEN MintOutcome(caller, to, amount) = Minted(caller, to, amount)
                   ELSE MintOutcome(caller, to, amount).name = "ReserveInsufficient")
    /\ [][/\ paused =>
              /\ last'.name = "ReserveUpdated" =>
                    /\ ledger' = <<last'.args[1], last'.args[2], now>>
                    /\ paused'
              /\ last'.fn = "setReserveTTL" =>
                    (last'.kind = "event" /\ reserveTTL' = last'.args[2])
              /\ last'.fn = "setMintPerTxLimit" =>
                    (last'.kind = "event" /\ mintPerTxLimit' = last'.args[2])
              /\ last'.fn = "setAllowlistEnabled" =>
                    (last'.kind = "event" /\ allowlistEnabled' = last'.args[1])
              /\ last'.fn = "setAllowlistAddress" =>
                    (last'.kind = "event" /\ allowlist'[last'.args[1]] = last'.args[2])
              /\ last'.fn = "updateChainlinkConfig" =>
                    (last'.kind = "event" /\ functionsRouter' = last'.args[1])
          /\ last'.name = "Unpaused" =>
              UNCHANGED <<ledger, reserveTTL, policy, oracle, supply>>]_vars

\* While the contract is paused over issued supply, the router's second
\* attestation has just been accepted and stored.
C37_Witness ==
    /\ paused
    /\ last.name = "ReserveUpdated"
    /\ lastReserveNonce = last.args[2]
    /\ lastReserveNonce > 1
    /\ TokGt(totalSupply, TokZero)

====
